---------------------------- MODULE Spec2Model ----------------------------
(***************************************************************************)
(* A model of the release-notes generator of podman-desktop's              *)
(* tool-release-notes: class ReleaseNotesPreparator                        *)
(* (release-notes-preparator.ts, here src/unnamed/part_000 lines 144-574). *)
(*                                                                         *)
(* JavaScript values are modelled as follows.                              *)
(*   - a string that the code only compares (a login, a user type) is a    *)
(*     TLA+ string;                                                        *)
(*   - a string that the code searches, slices or concatenates (a title,   *)
(*     a body, a milestone title, an error message) is a sequence of       *)
(*     one-character strings;                                              *)
(*   - an optional value (T | null | undefined) is a sequence of length    *)
(*     at most one: << >> is null/undefined, <<v>> is the value v;         *)
(*   - an object used as a dictionary is a function with a finite DOMAIN,  *)
(*     or, where the order of Object.values matters, a sequence in         *)
(*     insertion order.                                                    *)
(***************************************************************************)
EXTENDS Integers, Sequences, FiniteSets, TLC

VARIABLES
    entry,                   \* the method the caller invoked
    pc,                      \* where the invoked method stands
    requests,                \* the network requests issued so far, in order
    error,                   \* the message of the Error that ended the call, if any
    milestone,               \* this.milestone: the requested milestone title
    apiClosed,               \* server: the closed issues of the milestone, in API order
    serverPageLen,           \* server: the most entries it puts on a page
    milestones,              \* getPRsByMilestone: the answer of listMilestones, if any
    foundMilestone,          \* getPRsByMilestone: the milestone found, if any
    page,                    \* getPRsByMilestone: the next page to request
    prs,                     \* the Issue[] argument / local of the method
    contributorsMap,         \* getFirstTimeContributors: login -> contributions
    usersMilestonePRs,       \* getFirstTimeContributors: login -> PRs in the milestone
    firstTimeContributorPRs, \* the PRInfo[] getFirstTimeContributors returns
    i,                       \* generate: the loop index (1-based position in prs)
    pr,                      \* the pull request being enriched (const pr / the argument)
    issueResponse,           \* the last answer of issues.get, if any
    useOllama,               \* this.useOllama: the Ollama backend is selected
    model,                   \* this.model, if any
    port,                    \* this.port
    endpoint,                \* this.endpoint
    username,                \* this.username
    content,                 \* the text handed to fetchDataFromService
    lmReply,                 \* what the language-model endpoint answered, if asked
    highlighted,             \* what fetchDataFromService returned, if it has
    categorizedPRsMap,       \* generate: the categories, in insertion order
    written,                 \* the files written so far: name and rendered data
    script,                  \* run: which revision of generate-release-notes.ts runs
    args,                    \* run: process.argv.slice(2)
    env,                     \* run: GITHUB_TOKEN and GITHUB_USERNAME of process.env
    console,                 \* run: what was printed, in order
    constructed,             \* run: the argument lists of new ReleaseNotesPreparator(...)
    generateCalls            \* run: how many times generate() was called

commonVars == <<entry, pc, requests, error, prs>>
fetchVars == <<milestone, apiClosed, serverPageLen, milestones, foundMilestone, page>>
contribVars == <<contributorsMap, usersMilestonePRs, firstTimeContributorPRs>>
enrichVars == <<i, pr, issueResponse>>
configVars == <<useOllama, model, port, endpoint, username>>
lmVars == <<content, lmReply, highlighted>>
genVars == <<categorizedPRsMap, written>>
runVars == <<script, args, env, console, constructed, generateCalls>>

vars == <<commonVars, fetchVars, contribVars, enrichVars, configVars, lmVars, genVars, runVars>>

-----------------------------------------------------------------------------
(* Bounds of the model *)

\* the longest Issue[] list handed to getFirstTimeContributors
MaxPRs == 3
\* creation timestamps are 1..MaxTime
MaxTime == 2
\* the most closed issues the server holds for the milestone
MaxClosed == 4
\* the server's page length is 1..MaxPageLen
MaxPageLen == 2
\* a pull request body handed to includeDataFromIssue is made of at most
\* MaxFrags fragments
MaxFrags == 4
\* the language model answers at most MaxHighlights highlight objects
MaxHighlights == 2

-----------------------------------------------------------------------------
(* Generic helpers *)

None == << >>
Some(v) == <<v>>

EmptyMap == [k \in {} |-> 0]

RECURSIVE SumOver(_, _)
SumOver(f, keys) ==
    IF keys = {} THEN 0
    ELSE LET k == CHOOSE x \in keys : TRUE
         IN  f[k] + SumOver(f, keys \ {k})

Min(a, b) == IF a < b THEN a ELSE b

\* String.prototype.includes on strings as character sequences
Contains(text, sub) ==
    \E at \in 0..(Len(text) - Len(sub)) : SubSeq(text, at + 1, at + Len(sub)) = sub

\* String.prototype.startsWith
StartsWith(text, prefix) ==
    Len(prefix) <= Len(text) /\ SubSeq(text, 1, Len(prefix)) = prefix

\* concatenation of a sequence of strings
RECURSIVE Flatten(_)
Flatten(texts) == IF texts = << >> THEN << >> ELSE Head(texts) \o Flatten(Tail(texts))

UpperCase == <<"A", "B", "C", "D", "E", "F", "G", "H", "I", "J", "K", "L", "M", "N", "O", "P", "Q", "R", "S", "T", "U", "V", "W", "X", "Y", "Z">>
LowerCase == <<"a", "b", "c", "d", "e", "f", "g", "h", "i", "j", "k", "l", "m", "n", "o", "p", "q", "r", "s", "t", "u", "v", "w", "x", "y", "z">>

\* one character under the regular expression flag i / String.toLowerCase
Lower(c) ==
    IF \E k \in 1..Len(UpperCase) : UpperCase[k] = c
    THEN LowerCase[CHOOSE k \in 1..Len(UpperCase) : UpperCase[k] = c]
    ELSE c

toLowerCase(text) == [k \in 1..Len(text) |-> Lower(text[k])]

\* the character classes \s and \d
IsSpace(c) == c \in {" ", "\t", "\n", "\r"}
IsDigit(c) == c \in {"0", "1", "2", "3", "4", "5", "6", "7", "8", "9"}

\* the string a value becomes when it is concatenated to a string: null
\* becomes "null"
StringOf(opt) == IF opt = None THEN <<"n", "u", "l", "l">> ELSE opt[1]

\* Array.prototype.join(sep), which is also how a template literal prints an
\* array (with sep = ",")
RECURSIVE Join(_, _)
Join(texts, sep) ==
    IF texts = << >> THEN << >>
    ELSE IF Len(texts) = 1 THEN texts[1]
         ELSE texts[1] \o sep \o Join(Tail(texts), sep)

-----------------------------------------------------------------------------
(* Data: the fields of a GitHub issue that the program reads *)

Users == {"alice", "bob"}

UserUrl(login) == <<"user", login>>
IssueUrl(number) == <<"html", number>>

\* components['schemas']['issue'], restricted to the fields the code reads
MkIssue(number, marker, user, title, body, created) ==
    [number |-> number, pull_request |-> marker, user |-> user, title |-> title,
     body |-> body, created_at |-> created, html_url |-> IssueUrl(number)]

SampleTitle == <<"f", "i", "x">>

MkUser(login, type) == [login |-> login, type |-> type, html_url |-> UserUrl(login)]


-----------------------------------------------------------------------------
(* Network requests *)

\* per_page of issues.listForRepo and repos.listContributors
PerPage == 100

\* a request as the log keeps it: the API called, the page asked for (0: none),
\* the per_page asked for (0: none) and the issue number asked for ("": none)
Request(api, pageNo, perPage) ==
    [api |-> api, page |-> pageNo, per_page |-> perPage, issue_number |-> << >>]

\* octokit.issues.get({owner, repo, issue_number})
IssueRequest(issueNumber) ==
    [api |-> "issues.get", page |-> 0, per_page |-> 0, issue_number |-> issueNumber]


-----------------------------------------------------------------------------
(* Milestone PR fetcher: getPRsByMilestone *)

T_1_20_0 == <<"1", ".", "2", "0", ".", "0">>
T_1_19_0 == <<"1", ".", "1", "9", ".", "0">>
T_1_20 == <<"1", ".", "2", "0">>

MkMilestone(title, number) == [title |-> title, number |-> number]

\* what issues.listMilestones may answer: no milestone, other milestones, a
\* milestone whose title is a proper prefix of the requested one, the requested
\* one alone or after another one
MilestoneLists ==
    { << >>,
      <<MkMilestone(T_1_19_0, 7)>>,
      <<MkMilestone(T_1_20, 5)>>,
      <<MkMilestone(T_1_20_0, 8)>>,
      <<MkMilestone(T_1_19_0, 7), MkMilestone(T_1_20_0, 8)>>,
      <<MkMilestone(T_1_19_0, 7), MkMilestone(T_1_20, 5)>> }

\* m => m.title === milestoneTitle, and a predicate that takes a title that
\* only begins like the requested one
TitleMatchesPrefix(m, milestoneTitle) == StartsWith(milestoneTitle, m.title)
TitleMatches(m, milestoneTitle) == m.title = milestoneTitle

\* milestones.find(...): the first match, or undefined
RECURSIVE FindMilestone(_, _)
FindMilestone(list, milestoneTitle) ==
    IF list = << >> THEN None
    ELSE IF TitleMatches(Head(list), milestoneTitle) THEN Some(Head(list))
         ELSE FindMilestone(Tail(list), milestoneTitle)

\* milestones.map(milestone => milestone.title)
TitlesOf(list) == [k \in 1..Len(list) |-> list[k].title]

\* `Milestone '${milestoneTitle}' was not found in: [${titles}]`
NotFoundMessage(milestoneTitle, list) ==
    <<"M", "i", "l", "e", "s", "t", "o", "n", "e", " ", "'">> \o milestoneTitle
    \o <<"'", " ", "w", "a", "s", " ", "n", "o", "t", " ", "f", "o", "u", "n", "d", " ", "i", "n", ":", " ", "[">>
    \o Join(TitlesOf(list), <<",">>) \o <<"]">>

\* the page the server answers to a request for page p with per_page perPage
ServerPage(p, perPage) ==
    LET size == Min(perPage, serverPageLen)
    IN  SubSeq(apiClosed, (p - 1) * size + 1, Min(p * size, Len(apiClosed)))

\* the predicate of prs.filter(...), and one that forgets the account type
IsUserPRNoTypeCheck(issue) ==
    /\ issue.pull_request
    /\ issue.user # None
    /\ issue.user[1].login # "podman-desktop-bot"
    /\ issue.user[1].login # "step-security-bot"
IsUserPR(issue) ==
    /\ issue.pull_request
    /\ issue.user # None
    /\ issue.user[1].type # "Bot"
    /\ issue.user[1].login # "podman-desktop-bot"
    /\ issue.user[1].login # "step-security-bot"

\* Array.prototype.filter with that predicate
RECURSIVE FilterUserPRs(_)
FilterUserPRs(list) ==
    IF list = << >> THEN << >>
    ELSE IF IsUserPR(Head(list)) THEN <<Head(list)>> \o FilterUserPRs(Tail(list))
         ELSE FilterUserPRs(Tail(list))

\* a variant of the continuation below in which generate goes from
\* getPRsByMilestone straight to its loop
ReturnToLoop(method, inGenerate) ==
    IF entry = method THEN "done"
    ELSE IF inGenerate = "listContributors" THEN "categorize" ELSE inGenerate

\* where an invoked method goes when it returns: to its caller in generate, or
\* back to the caller of the method
ReturnTo(method, inGenerate) == IF entry = method THEN "done" ELSE inGenerate

\* lines 320-330: listMilestones, find, throw when nothing is found
ListMilestones ==
    /\ pc = "listMilestones"
    /\ requests' = Append(requests, Request("listMilestones", 0, 0))
    /\ \E list \in MilestoneLists :
          LET found == FindMilestone(list, milestone)
          IN  /\ milestones' = Some(list)
              /\ foundMilestone' = found
              /\ IF found = None
                 THEN /\ pc' = "failed"
                      /\ error' = Some(NotFoundMessage(milestone, list))
                 ELSE /\ pc' = "listForRepo"
                      /\ error' = error
    /\ UNCHANGED <<entry, prs, milestone, apiClosed, serverPageLen, page>>
    /\ UNCHANGED <<contribVars, enrichVars, configVars, lmVars, genVars>>
    /\ UNCHANGED runVars

\* lines 334-359: one pass of the loop: request page `page`; an empty page ends
\* the loop, and the filtered list is returned
ListForRepo ==
    /\ pc = "listForRepo"
    /\ requests' = Append(requests, Request("listForRepo", page, PerPage))
    /\ LET issues == ServerPage(page, PerPage)
       IN  IF Len(issues) = 0
           THEN /\ prs' = FilterUserPRs(prs)
                /\ page' = page
                /\ pc' = ReturnTo("getPRsByMilestone", "listContributors")
           ELSE /\ prs' = prs \o issues
                /\ page' = page + 1
                /\ pc' = pc
    /\ UNCHANGED <<entry, error, milestone, apiClosed, serverPageLen, milestones, foundMilestone>>
    /\ UNCHANGED <<contribVars, enrichVars, configVars, lmVars, genVars>>
    /\ UNCHANGED runVars

(* What the server can hold for getPRsByMilestone *)

\* an entry of the server's list without its number: a user's pull request, an
\* issue, a pull request without author, one by a Bot account, one by each of
\* the two named accounts
FetchShapes ==
    { [marker |-> TRUE, user |-> Some(MkUser("alice", "User"))],
      [marker |-> FALSE, user |-> Some(MkUser("alice", "User"))],
      [marker |-> TRUE, user |-> None],
      [marker |-> TRUE, user |-> Some(MkUser("dependabot[bot]", "Bot"))],
      [marker |-> TRUE, user |-> Some(MkUser("podman-desktop-bot", "User"))],
      [marker |-> TRUE, user |-> Some(MkUser("step-security-bot", "User"))] }

FetchLists ==
    UNION {{[k \in 1..n |-> MkIssue(k, sh[k].marker, sh[k].user, SampleTitle, None, 1)] :
                sh \in [1..n -> FetchShapes]} : n \in 0..MaxClosed}

IdleFetch ==
    /\ milestone = T_1_20_0
    /\ apiClosed = << >>
    /\ serverPageLen = 1
    /\ milestones = None
    /\ foundMilestone = None
    /\ page = 1

IdleConfig ==
    /\ useOllama = FALSE
    /\ model = None
    /\ port = "45621"
    /\ endpoint = "/v1/chat/completions"
    /\ username = "releaser"

IdleLM ==
    /\ content = << >>
    /\ lmReply = None
    /\ highlighted = None

IdleGen ==
    /\ categorizedPRsMap = << >>
    /\ written = << >>

IdleRun ==
    /\ script = "none"
    /\ args = << >>
    /\ env = [GITHUB_TOKEN |-> None, GITHUB_USERNAME |-> None]
    /\ console = << >>
    /\ constructed = << >>
    /\ generateCalls = 0

IdleEnrich ==
    /\ i = 1
    /\ pr = None
    /\ issueResponse = None

IdleContrib ==
    /\ contributorsMap = EmptyMap
    /\ usersMilestonePRs = EmptyMap
    /\ firstTimeContributorPRs = << >>

(* A caller invokes getPRsByMilestone(owner, repo, milestone), as the unit *)
(* tests do *)

InitFetch ==
    /\ entry = "getPRsByMilestone"
    /\ pc = "listMilestones"
    /\ requests = << >> /\ error = None
    /\ prs = << >>
    /\ milestone = T_1_20_0
    /\ apiClosed \in FetchLists
    /\ serverPageLen \in 1..MaxPageLen
    /\ milestones = None
    /\ foundMilestone = None
    /\ page = 1
    /\ IdleContrib
    /\ IdleEnrich
    /\ IdleConfig
    /\ IdleLM
    /\ IdleGen
    /\ IdleRun

NextFetch == ListMilestones \/ ListForRepo

\* every awaited response arrives: the method is never left waiting
SpecFetch == InitFetch /\ [][NextFetch]_vars /\ WF_vars(NextFetch)

-----------------------------------------------------------------------------
(* Contributor classifier: getMilestonePRs, isNewContributor,              *)
(* getFirstTimeContributors                                                *)

\* obj[key] ?? 0, and the `!obj[key]` reading of a count
Count(map, key) == IF key \in DOMAIN map THEN map[key] ELSE 0

\* result[author]++ after `if (!result[author]) result[author] = 0`
Increment(map, key) ==
    [k \in DOMAIN map \cup {key} |-> IF k = key THEN Count(map, key) + 1 ELSE map[k]]

\* the guard of the count: issue.pull_request, then author = issue.user?.login
CountsNoMarker(issue) == issue.user # None
Counts(issue) == issue.pull_request /\ issue.user # None

RECURSIVE getMilestonePRsFrom(_, _)
getMilestonePRsFrom(list, result) ==
    IF list = << >> THEN result
    ELSE LET issue == Head(list)
         IN  getMilestonePRsFrom(Tail(list),
                 IF Counts(issue) THEN Increment(result, issue.user[1].login)
                 ELSE result)

getMilestonePRs(list) == getMilestonePRsFrom(list, EmptyMap)

isNewContributorNoZeroCheck(login, cMap, milestoneCommits) ==
    Count(cMap, login) = Count(milestoneCommits, login)

isNewContributor(login, cMap, milestoneCommits) ==
    LET totalCommits == Count(cMap, login)
        milestoneCount == Count(milestoneCommits, login)
    IN  totalCommits = milestoneCount /\ totalCommits > 0

\* contributors.data.reduce(...): later entries of a login overwrite earlier ones
RECURSIVE ReduceContributors(_, _)
ReduceContributors(data, acc) ==
    IF data = << >> THEN acc
    ELSE LET contributor == Head(data)
         IN  ReduceContributors(Tail(data),
                 IF contributor.login # None
                 THEN [k \in DOMAIN acc \cup {contributor.login[1]} |->
                          IF k = contributor.login[1] THEN contributor.contributions
                          ELSE acc[k]]
                 ELSE acc)

\* new Date(a) > new Date(b) on created_at: timestamps are modelled by their
\* epoch value, which is what the comparison of two Date objects compares
DateOlder(a, b) == a < b
DateNewer(a, b) == a > b

MkPRInfo(issue) ==
    [title |-> issue.title,
     author |-> [username |-> issue.user[1].login, link |-> issue.user[1].html_url],
     number |-> issue.number,
     link |-> issue.html_url,
     created_at |-> issue.created_at]

\* the position of login's entry in the map (0: no entry)
EntryOf(map, login) ==
    IF \E k \in 1..Len(map) : map[k].author.username = login
    THEN CHOOSE k \in 1..Len(map) : map[k].author.username = login
    ELSE 0

\* the loop of getFirstTimeContributors over prs; map is firstTimeContributorsMap
\* in insertion order
RECURSIVE firstTimeLoop(_, _, _, _)
firstTimeLoop(list, cMap, mCounts, map) ==
    IF list = << >> THEN map
    ELSE LET issue == Head(list)
             rest == Tail(list)
         IN  IF issue.user = None THEN firstTimeLoop(rest, cMap, mCounts, map)
             ELSE IF ~isNewContributor(issue.user[1].login, cMap, mCounts)
                  THEN firstTimeLoop(rest, cMap, mCounts, map)
                  ELSE LET newPRInfo == MkPRInfo(issue)
                           at == EntryOf(map, newPRInfo.author.username)
                       IN  firstTimeLoop(rest, cMap, mCounts,
                               IF at # 0
                               THEN IF DateNewer(newPRInfo.created_at, map[at].created_at)
                                    THEN [map EXCEPT ![at] = newPRInfo]
                                    ELSE map
                               ELSE Append(map, newPRInfo))

(* What the API and the caller can hand to getFirstTimeContributors *)

\* an entry of the list without its number: an authored entry with or without
\* the pull-request marker, or an entry whose user is null
ContribShapes ==
    [marker : BOOLEAN, user : {Some(MkUser(u, "User")) : u \in Users}, created : 1..MaxTime]
    \cup {[marker |-> TRUE, user |-> None, created |-> 1]}

ContribLists ==
    UNION {{[k \in 1..n |-> MkIssue(k, sh[k].marker, sh[k].user, SampleTitle, None, sh[k].created)] :
                sh \in [1..n -> ContribShapes]} : n \in 0..MaxPRs}

\* repos.listContributors: a user with n contributions is listed when n > 0
ContributorEntry(login, n) ==
    IF n > 0 THEN <<[login |-> Some(login), contributions |-> n]>> ELSE << >>

\* lifetime counts of the sample users (0: never contributed, not listed)
ContributionCounts == {0, 1, 2}

ContributorData ==
    {ContributorEntry("alice", a) \o ContributorEntry("bob", b) :
        a \in ContributionCounts, b \in ContributionCounts}

(* A caller invokes getFirstTimeContributors(prs), as the unit test does *)

InitContrib ==
    /\ entry = "getFirstTimeContributors"
    /\ pc = "listContributors"
    /\ prs \in ContribLists
    /\ requests = << >> /\ error = None
    /\ IdleFetch
    /\ IdleContrib
    /\ IdleEnrich
    /\ IdleConfig
    /\ IdleLM
    /\ IdleGen
    /\ IdleRun

\* lines 270-281: await listContributors, then build contributorsMap
ListContributors ==
    /\ pc = "listContributors"
    /\ \E data \in ContributorData :
          contributorsMap' = ReduceContributors(data, EmptyMap)
    /\ requests' = Append(requests, Request("listContributors", 0, PerPage))
    /\ pc' = "classify"
    /\ UNCHANGED <<entry, error, prs, usersMilestonePRs, firstTimeContributorPRs>>
    /\ UNCHANGED <<fetchVars, enrichVars, configVars, lmVars, genVars>>
    /\ UNCHANGED runVars

\* lines 283-315: getMilestonePRs, the loop over prs, Object.values
ClassifyContributors ==
    /\ pc = "classify"
    /\ usersMilestonePRs' = getMilestonePRs(prs)
    /\ firstTimeContributorPRs' =
           firstTimeLoop(prs, contributorsMap, getMilestonePRs(prs), << >>)
    /\ pc' = IF entry = "getFirstTimeContributors" THEN "done" ELSE "categorize"
    /\ UNCHANGED <<entry, requests, error, prs, contributorsMap>>
    /\ UNCHANGED <<fetchVars, enrichVars, configVars, lmVars, genVars>>
    /\ UNCHANGED runVars

NextContrib == ListContributors \/ ClassifyContributors

SpecContrib == InitContrib /\ [][NextContrib]_vars


-----------------------------------------------------------------------------
(* Issue-body enricher: includeDataFromIssue *)

Keywords == {<<"c", "l", "o", "s", "e", "s">>, <<"f", "i", "x", "e", "s">>}

\* /(Closes|Fixes)\s#\d+/i matches at position k of text
MatchesAt(text, k) ==
    \E kw \in Keywords :
        /\ k + Len(kw) + 2 <= Len(text)
        /\ toLowerCase(SubSeq(text, k, k + Len(kw) - 1)) = kw
        /\ IsSpace(text[k + Len(kw)])
        /\ text[k + Len(kw) + 1] = "#"
        /\ IsDigit(text[k + Len(kw) + 2])

\* the digits of \d+ from position k on: as many as there are
RECURSIVE DigitsFrom(_, _)
DigitsFrom(text, k) ==
    IF k <= Len(text) /\ IsDigit(text[k]) THEN <<text[k]>> \o DigitsFrom(text, k + 1)
    ELSE << >>

\* the positions of "#" in text
HashesIn(text) == {k \in 1..Len(text) : text[k] = "#"}

\* the least number of a non-empty set of numbers
Least(numbers) == CHOOSE m \in numbers : \A n \in numbers : m <= n

\* issueMatch[0].split('#')[1]: the part of a string after its first "#" up
\* to the next "#"
AfterFirstHash(text) ==
    IF HashesIn(text) = {} THEN << >>
    ELSE LET first == Least(HashesIn(text))
             later == {k \in HashesIn(text) : k > first}
         IN  SubSeq(text, first + 1, IF later = {} THEN Len(text) ELSE Least(later) - 1)

\* pr.body?.match(/(Closes|Fixes)\s#\d+/i): None, or issueMatch[0], the text of
\* the leftmost match
IssueMatch(body) ==
    IF body = None THEN None
    ELSE LET text == body[1]
             starts == {k \in 1..Len(text) : MatchesAt(text, k)}
         IN  IF starts = {} THEN None
             ELSE LET k == CHOOSE m \in starts : \A n \in starts : m <= n
                      kw == CHOOSE w \in Keywords :
                                toLowerCase(SubSeq(text, k, k + Len(w) - 1)) = w
                  IN  Some(SubSeq(text, k, k + Len(kw) + 1)
                           \o DigitsFrom(text, k + Len(kw) + 2))

\* { ...pr, body: response.data.body + pr.body }
WithIssueBody(p, data) == [p EXCEPT !.body = Some(StringOf(data.body) \o StringOf(p.body))]

\* what issues.get may answer: the issue with a description, with an empty
\* one, with none (body: null), or a failure (the promise rejects)
IssueText == <<"I", "s", "s", "u", "e", ".">>
IssueResponses ==
    { [ok |-> TRUE, data |-> [body |-> Some(IssueText)]],
      [ok |-> TRUE, data |-> [body |-> Some(<< >>)]],
      [ok |-> TRUE, data |-> [body |-> None]],
      [ok |-> FALSE, data |-> [body |-> None]] }

LookupFailed == <<"N", "o", "t", " ", "F", "o", "u", "n", "d">>

\* lines 500-508: look for the reference; without one return pr, with one
\* request the issue.  In generate this is the call at line 557.
IncludeDataFromIssueCall ==
    /\ pc = "includeDataFromIssue"
    /\ pr # None
    /\ \E issueMatch \in {IssueMatch(pr[1].body)} :
          IF issueMatch = None
          THEN /\ prs' = [prs EXCEPT ![i] = pr[1]]
               /\ requests' = requests
               /\ pc' = ReturnTo("includeDataFromIssue", "push")
          ELSE /\ requests' = Append(requests, IssueRequest(AfterFirstHash(issueMatch[1])))
               /\ prs' = prs
               /\ pc' = "issues.get"
    /\ UNCHANGED <<entry, error, i, pr, issueResponse>>
    /\ UNCHANGED <<fetchVars, contribVars, configVars, lmVars, genVars>>
    /\ UNCHANGED runVars

\* a variant of the continuation below in which a rejected lookup is swallowed
AfterIssuesGetSwallowed(response) == ReturnTo("includeDataFromIssue", "push")

\* line 504: await this.octokit.issues.get(...) is in no try block, neither
\* here nor at line 557: a rejection leaves includeDataFromIssue and generate
AfterIssuesGet(response) ==
    IF response.ok THEN ReturnTo("includeDataFromIssue", "push") ELSE "failed"

\* lines 504-511: the answer of issues.get arrives
IssuesGetResponse ==
    /\ pc = "issues.get"
    /\ \E response \in IssueResponses :
          /\ issueResponse' = Some(response)
          /\ IF response.ok
             THEN /\ prs' = [prs EXCEPT ![i] = WithIssueBody(pr[1], response.data)]
                  /\ error' = error
             ELSE /\ prs' = prs
                  /\ error' = Some(LookupFailed)
          /\ pc' = AfterIssuesGet(response)
    /\ UNCHANGED <<entry, requests, i, pr>>
    /\ UNCHANGED <<fetchVars, contribVars, configVars, lmVars, genVars>>
    /\ UNCHANGED runVars

(* The pull request bodies handed to includeDataFromIssue *)

Fragments ==
    { <<"C", "l", "o", "s", "e", "s", " ", "#", "1">>, <<"f", "I", "X", "E", "S", "\t", "#", "2", "3">>, <<"c", "l", "o", "s", "e", "s">>,
      <<" ">>, <<"#">>, <<"4">>, <<"x">> }

EnrichBodies ==
    {None} \cup
    UNION {{Some(Flatten(fr)) : fr \in [1..n -> Fragments]} : n \in 0..MaxFrags}

(* A caller invokes includeDataFromIssue(owner, repo, pr), as the unit tests do *)

InitEnrich ==
    /\ entry = "includeDataFromIssue"
    /\ pc = "includeDataFromIssue"
    /\ requests = << >> /\ error = None
    /\ \E body \in EnrichBodies :
          /\ pr = Some(MkIssue(401, TRUE, Some(MkUser("alice", "User")), SampleTitle, body, 1))
          /\ prs = <<pr[1]>>
    /\ i = 1
    /\ issueResponse = None
    /\ IdleFetch
    /\ IdleContrib
    /\ IdleConfig
    /\ IdleLM
    /\ IdleGen
    /\ IdleRun

NextEnrich == IncludeDataFromIssueCall \/ IssuesGetResponse

SpecEnrich == InitEnrich /\ [][NextEnrich]_vars

-----------------------------------------------------------------------------
(* Highlight generator: fetchDataFromService *)

\* the request of line 460: the URL's port and path, and the body's shape,
\* model name and DATA text
FetchRequest(portNo, path, ollama, modelName, data) ==
    [api |-> "fetch", port |-> portNo, endpoint |-> path,
     body |-> [shape |-> IF ollama THEN "ollama" ELSE "chat",
               model |-> IF ollama THEN modelName ELSE Some("AI Lab model"),
               content |-> data]]

\* HighlightedPR
HL1 == [title |-> "HL1", shortDesc |-> "s1", longDesc |-> "l1"]
HL2 == [title |-> "HL2", shortDesc |-> "s2", longDesc |-> "l2"]

\* line 396: the prompt asks for "a JSON array of at most 5 objects"
PromptLimit == 5

\* what the model may put into prs: the short lists, and one list longer than
\* the prompt asks for (the schema of lines 363-380 has no maxItems)
HighlightLists ==
    UNION {[1..n -> {HL1, HL2}] : n \in 0..MaxHighlights}
    \cup {[k \in 1..(PromptLimit + 1) |-> HL1]}

(* A JavaScript value as far as the code looks at it: what `.prs` gives.     *)
(*   kind "list": an array of highlight objects (items)                      *)
(*   kind "undefined": undefined                                             *)
(*   kind "other": a value that is neither (a string, a number, an object)   *)
ListValue(items) == [kind |-> "list", items |-> items]
UndefinedValue == [kind |-> "undefined", items |-> << >>]
OtherValue == [kind |-> "other", items |-> << >>]

(* The text the model produced, by the JSON document it spells:              *)
(*   "garbage": not JSON at all            "null": the document null         *)
(*   "number": a number                    "array": a top-level array        *)
(*   "object": an object; prs is its member "prs", None when it has none     *)
JsonText(doc, prsMember) == [doc |-> doc, prs |-> prsMember]

ModelTexts ==
    {JsonText(d, None) : d \in {"garbage", "null", "number", "array", "object"}}
    \cup {JsonText("object", Some(ListValue(items))) : items \in HighlightLists}
    \cup {JsonText("object", Some(OtherValue))}

\* JSON.parse(text): throws a SyntaxError on undefined (which it reads as the
\* text "undefined") and on text that is not JSON; else the document's value
JSONParse(text) ==
    IF text = None \/ text[1].doc = "garbage"
    THEN [threw |-> TRUE, type |-> "none", prs |-> None]
    ELSE [threw |-> FALSE, type |-> text[1].doc, prs |-> text[1].prs]

\* JSON.parse(text).prs: reading a member of null throws a TypeError, a member
\* a value does not have is undefined
ParsePrs(text) ==
    LET parsed == JSONParse(text)
    IN  IF parsed.threw \/ parsed.type = "null"
        THEN [threw |-> TRUE, value |-> UndefinedValue]
        ELSE IF parsed.type = "object" /\ parsed.prs # None
             THEN [threw |-> FALSE, value |-> parsed.prs[1]]
             ELSE [threw |-> FALSE, value |-> UndefinedValue]

(* The object response.json() resolves to (parses: FALSE when the HTTP body  *)
(* is not JSON and json() rejects): its members `response` and `choices`,    *)
(* None when it has none; a choice's `message` and the message's `content`   *)
(* likewise.                                                                 *)
Envelope(parses, response, choices) ==
    [parses |-> parses, response |-> response, choices |-> choices]

Choice(text) == [message |-> Some([content |-> text])]

Envelopes ==
    {Envelope(FALSE, None, None), Envelope(TRUE, None, None)}
    \cup {Envelope(TRUE, Some(t), None) : t \in ModelTexts}
    \cup {Envelope(TRUE, None, Some(<<Choice(Some(t))>>)) : t \in ModelTexts}
    \cup {Envelope(TRUE, None, Some(<< >>)),
          Envelope(TRUE, None, Some(<<[message |-> None]>>)),
          Envelope(TRUE, None, Some(<<Choice(None)>>))}

\* what fetch may do: reject (no connection), or resolve with a status and a
\* body; an error status may come with any body, also with a well-formed one
LMReplies ==
    {[connected |-> FALSE, ok |-> FALSE, status |-> 0, json |-> Envelope(FALSE, None, None)]}
    \cup {[connected |-> TRUE, ok |-> FALSE, status |-> st, json |-> e] :
              st \in {404, 500},
              e \in {Envelope(FALSE, None, None),
                     Envelope(TRUE, Some(JsonText("object", Some(ListValue(<<HL1>>)))), None),
                     Envelope(TRUE, None,
                              Some(<<Choice(Some(JsonText("object", Some(ListValue(<<HL1>>)))))>>))}}
    \cup {[connected |-> TRUE, ok |-> TRUE, status |-> 200, json |-> e] : e \in Envelopes}

\* line 475: JSON.parse((await response.json()).response).prs
OllamaPrs(envelope) ==
    IF ~envelope.parses THEN [threw |-> TRUE, value |-> UndefinedValue]
    ELSE ParsePrs(envelope.response)

\* line 477: JSON.parse((await response.json()).choices[0].message.content).prs
ChatPrs(envelope) ==
    IF ~envelope.parses THEN [threw |-> TRUE, value |-> UndefinedValue]
    ELSE IF envelope.choices = None \/ envelope.choices[1] = << >>
         THEN [threw |-> TRUE, value |-> UndefinedValue]
         ELSE IF envelope.choices[1][1].message = None
              THEN [threw |-> TRUE, value |-> UndefinedValue]
              ELSE ParsePrs(envelope.choices[1][1].message[1].content)

\* lines 473-485: the try block; a variant whose catch lets the error go
TryParseUncaught(envelope, ollama) ==
    LET got == IF ollama THEN OllamaPrs(envelope) ELSE ChatPrs(envelope)
    IN  IF got.threw THEN UndefinedValue ELSE got.value
TryParse(envelope, ollama) ==
    LET got == IF ollama THEN OllamaPrs(envelope) ELSE ChatPrs(envelope)
    IN  IF got.threw THEN ListValue(<< >>) ELSE got.value

\* lines 467-495: the first .then, and the .catch of a rejected fetch; a
\* variant that parses the body whatever the status
FetchResultAnyStatus(reply, ollama) ==
    IF ~reply.connected THEN ListValue(<< >>)
    ELSE TryParse(reply.json, ollama)
FetchResult(reply, ollama) ==
    IF ~reply.connected THEN ListValue(<< >>)
    ELSE IF ~reply.ok THEN ListValue(<< >>)
         ELSE TryParse(reply.json, ollama)

\* what the language model may answer to generate: no connection, an error
\* status, a body that is not JSON, text that is not JSON, an object without
\* prs, and a well-formed answer of either backend
GenReplies ==
    {reply \in LMReplies :
        \/ ~reply.ok /\ reply.status \in {0, 500} /\ ~reply.json.parses
        \/ reply.ok /\ reply.json \in
              {Envelope(FALSE, None, None),
               Envelope(TRUE, Some(JsonText("garbage", None)), None),
               Envelope(TRUE, None, Some(<<Choice(Some(JsonText("garbage", None)))>>)),
               Envelope(TRUE, Some(JsonText("object", None)), None),
               Envelope(TRUE, Some(JsonText("object", Some(ListValue(<<HL1>>)))), None),
               Envelope(TRUE, None,
                        Some(<<Choice(Some(JsonText("object", Some(ListValue(<<HL1>>)))))>>))}}

\* lines 460-496: the request and whatever comes of it
FetchDataFromService ==
    /\ pc = "fetchDataFromService"
    /\ requests' = Append(requests, FetchRequest(port, endpoint, useOllama, model, content))
    /\ \E reply \in (IF entry = "fetchDataFromService" THEN LMReplies ELSE GenReplies) :
          /\ lmReply' = Some(reply)
          /\ highlighted' = Some(FetchResult(reply, useOllama))
    /\ pc' = ReturnTo("fetchDataFromService", "generateMD")
    /\ UNCHANGED <<entry, error, prs, content>>
    /\ UNCHANGED <<fetchVars, contribVars, enrichVars, configVars, genVars>>
    /\ UNCHANGED runVars

(* A caller invokes fetchDataFromService(content), as the unit tests do *)

SampleContent == <<"P", "R", "1", ":", " ", ".", ".", ".">>

Backends ==
    { [useOllama |-> FALSE, model |-> None],
      [useOllama |-> FALSE, model |-> Some("test-model")],
      [useOllama |-> TRUE, model |-> Some("gemma3:27b")] }

Endpoints ==
    { [port |-> "45621", endpoint |-> "/v1/chat/completions"],
      [port |-> "11434", endpoint |-> "/api/generate"],
      [port |-> "12345", endpoint |-> "/api/test"] }

InitLM ==
    /\ entry = "fetchDataFromService"
    /\ pc = "fetchDataFromService"
    /\ requests = << >> /\ error = None
    /\ prs = << >>
    /\ \E b \in Backends : useOllama = b.useOllama /\ model = b.model
    /\ \E e \in Endpoints : port = e.port /\ endpoint = e.endpoint
    /\ username = "releaser"
    /\ content = SampleContent
    /\ lmReply = None
    /\ highlighted = None
    /\ IdleFetch
    /\ IdleContrib
    /\ IdleEnrich
    /\ IdleGen
    /\ IdleRun

NextLM == FetchDataFromService

SpecLM == InitLM /\ [][NextLM]_vars

-----------------------------------------------------------------------------
(* Release-notes generation: generate and generateMD *)

\* the alternatives of /^\s*(chore|feat|docs|fix|refactor|test|ci)/i, in order
TitlePrefixes ==
    <<<<"c", "h", "o", "r", "e">>, <<"f", "e", "a", "t">>, <<"d", "o", "c", "s">>, <<"f", "i", "x">>,
      <<"r", "e", "f", "a", "c", "t", "o", "r">>, <<"t", "e", "s", "t">>, <<"c", "i">>>>

\* the first position of text at or after k that holds no whitespace
RECURSIVE SkipSpaces(_, _)
SkipSpaces(text, k) ==
    IF k > Len(text) \/ ~IsSpace(text[k]) THEN k ELSE SkipSpaces(text, k + 1)

\* a variant of the match below that allows no leading whitespace
TitleMatchNoSpace(title) ==
    LET low == toLowerCase(title)
        hits == {n \in 1..Len(TitlePrefixes) :
                    /\ Len(TitlePrefixes[n]) <= Len(title)
                    /\ SubSeq(low, 1, Len(TitlePrefixes[n])) = TitlePrefixes[n]}
    IN  IF hits = {} THEN None
        ELSE Some(TitlePrefixes[CHOOSE n \in hits : \A other \in hits : n <= other])

\* pr.title.match(/^\s*(chore|feat|docs|fix|refactor|test|ci)/i): the first
\* alternative found after the leading whitespace, as match[1].toLowerCase()
\* reads it, or null
TitleMatch(title) ==
    LET k == SkipSpaces(title, 1)
        low == toLowerCase(title)
        hits == {n \in 1..Len(TitlePrefixes) :
                    /\ k + Len(TitlePrefixes[n]) - 1 <= Len(title)
                    /\ SubSeq(low, k, k + Len(TitlePrefixes[n]) - 1) = TitlePrefixes[n]}
    IN  IF hits = {} THEN None
        ELSE Some(TitlePrefixes[CHOOSE n \in hits : \A other \in hits : n <= other])

\* pr.title.match(/\(test/i)
MatchTest(title) == Contains(toLowerCase(title), <<"(", "t", "e", "s", "t">>)

\* lines 531-537: the category of a title that matched, and a variant
\* without the override of lines 534-537
CategoryOfPrimary(title) == TitleMatch(title)[1]
CategoryOf(title) == IF MatchTest(title) THEN <<"t", "e", "s", "t">> ELSE TitleMatch(title)[1]

\* lines 539-547: the PRInfo that generate builds
PRInfoOf(issue) ==
    [title |-> issue.title,
     author |-> [username |-> issue.user[1].login, link |-> issue.user[1].html_url],
     number |-> issue.number,
     link |-> issue.html_url]

\* lines 549-554: categorizedPRsMap[category] is created when it is missing
EnsureCategory(map, category) ==
    IF \E k \in 1..Len(map) : map[k].category = category THEN map
    ELSE Append(map, [category |-> category, prs |-> << >>])

\* a variant of the push below that puts the entry in front (unshift)
PushPRInFront(map, category, prInfo) ==
    [k \in 1..Len(map) |->
        IF map[k].category = category
        THEN [map[k] EXCEPT !.prs = <<prInfo>> \o @]
        ELSE map[k]]

\* line 559: categorizedPRsMap[category].prs.push(prInfo)
PushPR(map, category, prInfo) ==
    [k \in 1..Len(map) |->
        IF map[k].category = category
        THEN [map[k] EXCEPT !.prs = Append(@, prInfo)]
        ELSE map[k]]

ScreenshotHeading == <<"#", "#", "#", " ", "S", "c", "r", "e", "e", "n", "s", "h", "o", "t", " ", "/", " ", "v", "i", "d", "e", "o", " ", "o", "f", " ", "U", "I">>

\* the first position where sub occurs in text (0: nowhere)
FirstIndexOf(text, sub) ==
    LET hits == {k \in 1..(Len(text) - Len(sub) + 1) : SubSeq(text, k, k + Len(sub) - 1) = sub}
    IN  IF hits = {} THEN 0 ELSE CHOOSE k \in hits : \A other \in hits : k <= other

\* line 565: pr.body ? pr.body.replace(/### Screenshot \/ video of UI[\s\S]*/, '') : ''
StripScreenshots(body) ==
    IF body = None \/ body[1] = << >> THEN << >>
    ELSE LET at == FirstIndexOf(body[1], ScreenshotHeading)
         IN  IF at = 0 THEN body[1] ELSE SubSeq(body[1], 1, at - 1)

StripAll(list) == [k \in 1..Len(list) |-> [list[k] EXCEPT !.body = Some(StripScreenshots(@))]]

\* lines 566-568: the pull requests whose title starts with feat or chore, and
\* a variant that takes feat only
IsFeatureFeatOnly(issue) == issue.pull_request /\ StartsWith(issue.title, <<"f", "e", "a", "t">>)
IsFeature(issue) ==
    issue.pull_request
    /\ (IF StartsWith(issue.title, <<"f", "e", "a", "t">>) THEN TRUE
        ELSE StartsWith(issue.title, <<"c", "h", "o", "r", "e">>))

RECURSIVE Features(_)
Features(list) ==
    IF list = << >> THEN << >>
    ELSE IF IsFeature(Head(list)) THEN <<Head(list)>> \o Features(Tail(list))
         ELSE Features(Tail(list))

\* a small number in decimal, as a template literal prints it
Digits == <<"0", "1", "2", "3", "4", "5", "6", "7", "8", "9">>
Decimal(n) == IF n < 10 THEN <<Digits[n + 1]>> ELSE <<Digits[(n \div 10) + 1], Digits[(n % 10) + 1]>>

\* a variant of the text below joined as join() does without an argument
ContentOfJoinedByComma(features) ==
    Join([k \in 1..Len(features) |->
             <<"P", "R">> \o Decimal(k) \o <<":", " ">> \o features[k].title \o <<" ", "-", " ">>
             \o StringOf(features[k].body) \o <<"\n", "}">>], <<",">>)

\* line 569: `PR${index + 1}: ${pr.title} - ${pr.body}\n}` joined by ''
ContentOf(features) ==
    Flatten([k \in 1..Len(features) |->
                <<"P", "R">> \o Decimal(k) \o <<":", " ">> \o features[k].title \o <<" ", "-", " ">>
                \o StringOf(features[k].body) \o <<"\n", "}">>])

\* lines 518-557: one pass of the loop up to the call of includeDataFromIssue;
\* a title of no category, or a pull request without user, is skipped
Categorize ==
    /\ pc = "categorize"
    /\ i <= Len(prs)
    /\ pr' = Some(prs[i])
    /\ IF TitleMatch(prs[i].title) = None \/ prs[i].user = None
       THEN /\ i' = i + 1
            /\ pc' = pc
            /\ categorizedPRsMap' = categorizedPRsMap
       ELSE /\ i' = i
            /\ pc' = "includeDataFromIssue"
            /\ categorizedPRsMap' = EnsureCategory(categorizedPRsMap, CategoryOf(prs[i].title))
    /\ UNCHANGED <<entry, requests, error, prs, issueResponse, written>>
    /\ UNCHANGED <<fetchVars, contribVars, configVars, lmVars>>
    /\ UNCHANGED runVars

\* line 559 and the loop's i++: includeDataFromIssue has returned
PushPRInfo ==
    /\ pc = "push"
    /\ categorizedPRsMap' = PushPR(categorizedPRsMap, CategoryOf(pr[1].title), PRInfoOf(pr[1]))
    /\ i' = i + 1
    /\ pc' = "categorize"
    /\ UNCHANGED <<entry, requests, error, prs, pr, issueResponse, written>>
    /\ UNCHANGED <<fetchVars, contribVars, configVars, lmVars>>
    /\ UNCHANGED runVars

\* lines 562-571: the loop is over: bodies are cut, the features are chosen
\* and their text is handed to fetchDataFromService
PrepareContent ==
    /\ pc = "categorize"
    /\ i > Len(prs)
    /\ prs' = StripAll(prs)
    /\ content' = ContentOf(Features(StripAll(prs)))
    /\ pc' = "fetchDataFromService"
    /\ UNCHANGED <<entry, requests, error, lmReply, highlighted>>
    /\ UNCHANGED <<fetchVars, contribVars, enrichVars, configVars, genVars>>
    /\ UNCHANGED runVars

\* a variant of the priority below that ranks chore before fix
PriorityChoreBeforeFix(category) ==
    IF category = <<"f", "e", "a", "t">> THEN 0
    ELSE IF category = <<"c", "h", "o", "r", "e">> THEN 1
         ELSE IF category = <<"f", "i", "x">> THEN 2
              ELSE 3

\* priorityOrder.indexOf(category), Infinity (here 3) for a category not in it
Priority(category) ==
    IF category = <<"f", "e", "a", "t">> THEN 0
    ELSE IF category = <<"f", "i", "x">> THEN 1
         ELSE IF category = <<"c", "h", "o", "r", "e">> THEN 2
              ELSE 3

\* changelog.toSorted(by priority): insertion sort, which is stable as
\* toSorted is; categories of equal priority (Infinity - Infinity is NaN,
\* read as 0) keep their order
RECURSIVE InsertByPriority(_, _)
InsertByPriority(sorted, c) ==
    IF sorted = << >> THEN <<c>>
    ELSE IF Priority(c.category) < Priority(sorted[Len(sorted)].category)
         THEN Append(InsertByPriority(SubSeq(sorted, 1, Len(sorted) - 1), c), sorted[Len(sorted)])
         ELSE Append(sorted, c)

RECURSIVE toSorted(_)
toSorted(changelog) ==
    IF changelog = << >> THEN << >>
    ELSE InsertByPriority(toSorted(SubSeq(changelog, 1, Len(changelog) - 1)),
                          changelog[Len(changelog)])

\* a variant of the version below that removes one character
VersionDropOne(milestoneTitle) ==
    IF Len(milestoneTitle) <= 1 THEN << >>
    ELSE SubSeq(milestoneTitle, 1, Len(milestoneTitle) - 1)

\* this.milestone.slice(0, -2)
Version(milestoneTitle) ==
    IF Len(milestoneTitle) <= 2 THEN << >>
    ELSE SubSeq(milestoneTitle, 1, Len(milestoneTitle) - 2)

\* date.toISOString().split('T')[0] on the day of the run
FormattedDate == <<"2", "0", "2", "6", "-", "0", "1", "-", "1", "5">>

\* `${formattedDate}-release-${version}.md`
Filename(version) == FormattedDate \o <<"-", "r", "e", "l", "e", "a", "s", "e", "-">> \o version \o <<".", "m", "d">>

\* fs.promises.writeFile(filename, data, {flag}) on a directory (a function
\* from the names of its files to what they hold): w and w+ create the file
\* or replace what it holds, a appends, wx refuses a name that exists
WriteFile(files, w) ==
    IF w.filename \in DOMAIN files
    THEN CASE w.flag \in {"w", "w+"} -> [files EXCEPT ![w.filename] = <<w.view>>]
           [] w.flag = "a" -> [files EXCEPT ![w.filename] = Append(@, w.view)]
           [] OTHER -> files
    ELSE [name \in DOMAIN files \cup {w.filename} |->
             IF name = w.filename THEN <<w.view>> ELSE files[name]]

\* lines 212-244: generateMD; a written file is kept as its name, the flag it
\* is opened with and the view that the template is rendered with
GenerateMD ==
    /\ pc = "generateMD"
    /\ LET version == Version(milestone)
           view == [firstTimeContributors |-> firstTimeContributorPRs,
                    changelog |-> toSorted(categorizedPRsMap),
                    highlighted |-> highlighted[1],
                    version |-> version,
                    username |-> username]
       IN  written' = Append(written, [filename |-> Filename(version), flag |-> "w+", view |-> view])
    /\ pc' = "done"
    /\ UNCHANGED <<entry, requests, error, prs, categorizedPRsMap>>
    /\ UNCHANGED <<fetchVars, contribVars, enrichVars, configVars, lmVars>>
    /\ UNCHANGED runVars

(* What the server can hold for generate *)

\* the titles and bodies of the milestone's pull requests
GenShapes ==
    { [user |-> "alice", title |-> <<"f", "e", "a", "t", ":", " ", "a", "d", "d", " ", "x">>,
       body |-> Some(<<"C", "l", "o", "s", "e", "s", " ", "#", "1", "\n", "#", "#", "#", " ", "S", "c", "r", "e", "e", "n", "s", "h", "o", "t", " ", "/", " ", "v", "i", "d", "e", "o", " ", "o", "f", " ", "U", "I", "\n", "i", "m", "g">>)],
      [user |-> "bob", title |-> <<"c", "h", "o", "r", "e", "(", "t", "e", "s", "t", "s", ")", ":", " ", "y">>, body |-> None],
      [user |-> "alice", title |-> <<" ", "F", "i", "x", ":", " ", "z">>,
       body |-> Some(<<"t", "e", "x", "t", "#", "#", "#", " ", "S", "c", "r", "e", "e", "n", "s", "h", "o", "t", " ", "/", " ", "v", "i", "d", "e", "o", " ", "o", "f", " ", "U", "I", "\n", "i", "m", "g">>)],
      [user |-> "bob", title |-> <<"u", "p", "d", "a", "t", "e", " ", "d", "e", "p", "s">>,
       body |-> Some(<<"f", "i", "x", "e", "s", " ", "#", "2", "3">>)],
      [user |-> "alice", title |-> <<"d", "o", "c", "s", ":", " ", "d">>, body |-> Some(<< >>)],
      [user |-> "bob", title |-> <<"f", "i", "x", "(", "u", "i", ")", ":", " ", "w">>, body |-> None] }

\* the most closed pull requests in a milestone handed to generate
MaxGenPRs == 2

GenLists ==
    UNION {{[k \in 1..n |-> MkIssue(k, TRUE, Some(MkUser(sh[k].user, "User")),
                                    sh[k].title, sh[k].body, k)] :
                sh \in [1..n -> GenShapes]} : n \in 0..MaxGenPRs}

(* The caller invokes generate(), as run() does *)

InitGen ==
    /\ entry = "generate"
    /\ pc = "listMilestones"
    /\ requests = << >> /\ error = None
    /\ prs = << >>
    /\ milestone = T_1_20_0
    /\ apiClosed \in GenLists
    /\ serverPageLen \in {1, PerPage}
    /\ milestones = None
    /\ foundMilestone = None
    /\ page = 1
    /\ IdleContrib
    /\ IdleEnrich
    /\ \E b \in Backends : useOllama = b.useOllama /\ model = b.model
    /\ port = "45621" /\ endpoint = "/v1/chat/completions"
    /\ username = "releaser"
    /\ IdleLM
    /\ IdleGen
    /\ IdleRun

NextGen ==
    \/ ListMilestones
    \/ ListForRepo
    \/ ListContributors
    \/ ClassifyContributors
    \/ Categorize
    \/ IncludeDataFromIssueCall
    \/ IssuesGetResponse
    \/ PushPRInfo
    \/ PrepareContent
    \/ FetchDataFromService
    \/ GenerateMD

\* the request to the language model is settled, answered or refused, and the
\* file system completes the write
SpecGen ==
    /\ InitGen /\ [][NextGen]_vars
    /\ WF_vars(FetchDataFromService) /\ WF_vars(GenerateMD)

-----------------------------------------------------------------------------
(* A caller invokes generateMD(changelog, firstTimeContributors, highlighted), *)
(* as the unit test does *)

\* the longest changelog handed to generateMD
MaxCategories == 3

\* the category names a changelog may hold: the seven of the categorizer and
\* one that it never produces
CategoryNames == {TitlePrefixes[n] : n \in 1..Len(TitlePrefixes)} \cup {<<"p", "e", "r", "f">>}

\* changelogs of up to MaxCategories categories, in any order, a name possibly
\* more than once; the k-th category holds the pull request numbered k
Changelogs ==
    UNION {{[k \in 1..n |->
                [category |-> names[k],
                 prs |-> <<PRInfoOf(MkIssue(k, TRUE, Some(MkUser("alice", "User")),
                                            SampleTitle, None, 1))>>]] :
                names \in [1..n -> CategoryNames]} : n \in 0..MaxCategories}

\* the milestone names generateMD is tried with
MilestoneNames == {<<"1", ".", "2", "0", ".", "0">>, <<"1", ".", "9">>, <<"v", "1">>, <<"7">>, <<>>}

InitMD ==
    /\ entry = "generateMD"
    /\ pc = "generateMD"
    /\ requests = << >> /\ error = None
    /\ prs = << >>
    /\ milestone \in MilestoneNames
    /\ apiClosed = << >>
    /\ serverPageLen = 1
    /\ milestones = None
    /\ foundMilestone = None
    /\ page = 1
    /\ IdleContrib
    /\ IdleEnrich
    /\ IdleConfig
    /\ content = << >>
    /\ lmReply = None
    /\ highlighted \in {Some(ListValue(<< >>)), Some(ListValue(<<HL1>>))}
    /\ categorizedPRsMap \in Changelogs
    /\ written = << >>
    /\ IdleRun

NextMD == GenerateMD

SpecMD == InitMD /\ [][NextMD]_vars

-----------------------------------------------------------------------------
(* Command line: run (generate-release-notes.ts).  Two revisions of the file *)
(* are in the repository: the one that parses with minimist                   *)
(* (src/release-notes/generate-release-notes.ts) and the one that parses with *)
(* a switch (src/unnamed/part_002).  Command-line tokens, and the values made *)
(* of them, are sequences of characters.                                      *)

\* a JavaScript value made from the command line or the environment: its type
\* and what it prints as
Str(text) == [type |-> "string", text |-> text]
Num(text) == [type |-> "number", text |-> text]
True == [type |-> "boolean", text |-> <<"t", "r", "u", "e">>]

\* truthiness of an optional value: undefined, "" and 0 are falsy
Truthy(opt) ==
    /\ opt # None
    /\ opt[1].text # << >>
    /\ ~(opt[1].type = "number" /\ opt[1].text = <<"0">>)

\* minimist's isNumber, for unsigned decimals: /^\d+(\.\d*)?$/
IsNumber(text) ==
    /\ text # << >>
    /\ IsDigit(text[1])
    /\ \A k \in 1..Len(text) : IsDigit(text[k]) \/ text[k] = "."
    /\ Cardinality({k \in 1..Len(text) : text[k] = "."}) <= 1

\* text without its leading zeros (one digit at least is kept)
RECURSIVE DropLeadingZeros(_)
DropLeadingZeros(text) ==
    IF Len(text) > 1 /\ text[1] = "0" /\ IsDigit(text[2]) THEN DropLeadingZeros(Tail(text))
    ELSE text

\* text of a decimal without the trailing zeros of its fraction, and without
\* the point when nothing follows it
RECURSIVE DropTrailingZeros(_)
DropTrailingZeros(text) ==
    IF \E k \in 1..Len(text) : text[k] = "."
    THEN IF text[Len(text)] \in {"0", "."}
         THEN DropTrailingZeros(SubSeq(text, 1, Len(text) - 1))
         ELSE text
    ELSE text

\* String(Number(text)) for a text that IsNumber
NumberText(text) == DropTrailingZeros(DropLeadingZeros(text))

\* minimist turns a value that looks like a number into a number
Coerce(text) == IF IsNumber(text) THEN Num(NumberText(text)) ELSE Str(text)

\* /^--.+/, /^-[^-]+/ and minimist's test of the next token /^(-|--)[^-]/
IsLongFlag(tok) == Len(tok) >= 3 /\ tok[1] = "-" /\ tok[2] = "-"
IsShortFlag(tok) == Len(tok) >= 2 /\ tok[1] = "-" /\ tok[2] # "-"
LooksLikeFlag(tok) ==
    \/ Len(tok) >= 2 /\ tok[1] = "-" /\ tok[2] # "-"
    \/ Len(tok) >= 3 /\ tok[1] = "-" /\ tok[2] = "-" /\ tok[3] # "-"

\* minimist's setArg: a key that is set a second time becomes an array, which
\* prints as its elements joined by ","
SetArg(parsed, key, value) ==
    IF key \in DOMAIN parsed
    THEN [parsed EXCEPT ![key] = [type |-> "array", text |-> @.text \o <<",">> \o value.text]]
    ELSE [k \in DOMAIN parsed \cup {key} |-> IF k = key THEN value ELSE parsed[k]]

\* minimist(args) from token k on, for the token forms `--key`, `--key value`,
\* `-k`, `-k value` and bare words (which go to `_` and are not kept here)
RECURSIVE MinimistFrom(_, _, _)
MinimistFrom(tokens, k, parsed) ==
    IF k > Len(tokens) THEN parsed
    ELSE LET tok == tokens[k]
             key == IF IsLongFlag(tok) THEN SubSeq(tok, 3, Len(tok)) ELSE SubSeq(tok, 2, Len(tok))
             takesNext == k < Len(tokens) /\ ~LooksLikeFlag(tokens[k + 1])
         IN  IF IsLongFlag(tok) \/ IsShortFlag(tok)
             THEN IF takesNext
                  THEN MinimistFrom(tokens, k + 2, SetArg(parsed, key, Coerce(tokens[k + 1])))
                  ELSE MinimistFrom(tokens, k + 1, SetArg(parsed, key, True))
             ELSE MinimistFrom(tokens, k + 1, parsed)

minimist(tokens) == MinimistFrom(tokens, 1, EmptyMap)

\* parsedArgs[key]: undefined when the key is not there
Arg(parsed, key) == IF key \in DOMAIN parsed THEN Some(parsed[key]) ELSE None

-----------------------------------------------------------------------------
\* a printed line: the console method, the text, and the token that a
\* template put into the text (empty when there is none)
Line(stream, text, tok) == [stream |-> stream, text |-> text, arg |-> tok]

\* showHelp()
ShowHelp ==
    <<Line("log", "Parameters:", << >>),
      Line("log", "--token - GitHub token or export GITHUB_TOKEN env variable", << >>),
      Line("log", "--org - GitHub organization (default is \"podman-desktop\")", << >>),
      Line("log", "--repo - GitHub repository (default is \"podman-desktop\")", << >>),
      Line("log", "--username - GitHub username or export GITHUB_USERNAME env variable", << >>),
      Line("log", "--milestone - GitHub milestone for which we want to generate release notes e.g. 1.18.0", << >>),
      Line("log", "--ollama - script will try to use ollama when model is provided", << >>),
      Line("log", "--model - name of ollama model for generating highlited PRs e.g. gemma3:27b (before running this script run \"ollama run gemma3:27b\")", << >>),
      Line("log", "--port - port on which is service running", << >>),
      Line("log", "--endpoint - endpoint of a running service, default is \"/v1/chat/completions\" for AI Lab and \"/api/generate\" for Ollama", << >>)>>

NoModelMessage == "When using --ollama, you need to specify --model argument"
NoTokenMessage == "No token found. Use either GITHUB_TOKEN or pass it as an argument"
NoUsernameMessage == "No username found. Use either GITHUB_USERNAME or pass it as an argument"

\* the initial values of run's configuration: the environment and the defaults
InitialConfig(environment) ==
    [token |-> environment.GITHUB_TOKEN,
     organization |-> Some(Str(<<"p", "o", "d", "m", "a", "n", "-", "d", "e", "s", "k", "t", "o", "p">>)),
     repo |-> Some(Str(<<"p", "o", "d", "m", "a", "n", "-", "d", "e", "s", "k", "t", "o", "p">>)),
     model |-> None,
     milestone |-> Some(Str(<< >>)),
     port |-> None,
     endpoint |-> None,
     username |-> environment.GITHUB_USERNAME,
     useOllama |-> FALSE]

\* if (parsedArgs[key]) config.field = parsedArgs[key]
Override(current, parsed, key) == IF Truthy(Arg(parsed, key)) THEN Arg(parsed, key) ELSE current

\* generate-release-notes.ts lines 53-74
parseArguments(parsedArgs, environment) ==
    LET config == InitialConfig(environment)
    IN  [token |-> Override(config.token, parsedArgs, <<"t", "o", "k", "e", "n">>),
         organization |-> Override(config.organization, parsedArgs, <<"o", "r", "g">>),
         repo |-> Override(config.repo, parsedArgs, <<"r", "e", "p", "o">>),
         model |-> Override(config.model, parsedArgs, <<"m", "o", "d", "e", "l">>),
         milestone |-> Override(config.milestone, parsedArgs, <<"m", "i", "l", "e", "s", "t", "o", "n", "e">>),
         port |-> Override(config.port, parsedArgs, <<"p", "o", "r", "t">>),
         endpoint |-> Override(config.endpoint, parsedArgs, <<"e", "n", "d", "p", "o", "i", "n", "t">>),
         username |-> Override(config.username, parsedArgs, <<"u", "s", "e", "r", "n", "a", "m", "e">>),
         useOllama |-> Truthy(Arg(parsedArgs, <<"o", "l", "l", "a", "m", "a">>))]

\* a variant of the validation below that does not look at the username
validateConfigNoUsername(config) ==
    IF config.useOllama /\ ~Truthy(config.model) THEN Some(NoModelMessage)
    ELSE IF ~Truthy(config.token) THEN Some(NoTokenMessage)
         ELSE None

\* generate-release-notes.ts lines 76-87: the message, or null
validateConfig(config) ==
    IF config.useOllama /\ ~Truthy(config.model) THEN Some(NoModelMessage)
    ELSE IF ~Truthy(config.token) THEN Some(NoTokenMessage)
         ELSE IF ~Truthy(config.username) THEN Some(NoUsernameMessage)
              ELSE None

\* port ??= ..., endpoint ??= ...: only undefined is replaced
OrDefault(current, text) == IF current = None THEN Some(Str(text)) ELSE current

\* generate-release-notes.ts lines 89-99, part_002 lines 99-105
setupDefaults(config) ==
    IF config.useOllama
    THEN [config EXCEPT !.port = OrDefault(@, <<"1", "1", "4", "3", "4">>), !.endpoint = OrDefault(@, <<"/", "a", "p", "i", "/", "g", "e", "n", "e", "r", "a", "t", "e">>)]
    ELSE [config EXCEPT !.port = OrDefault(@, <<"4", "5", "6", "2", "1">>),
                        !.endpoint = OrDefault(@, <<"/", "v", "1", "/", "c", "h", "a", "t", "/", "c", "o", "m", "p", "l", "e", "t", "i", "o", "n", "s">>)]

\* what a field of the preparator holds of a value: its text, as a template
\* literal or a comparison of strings reads it
TextOf(opt) == IF opt = None THEN None ELSE Some(opt[1].text)

\* the end of run: the lines are printed; without a configuration run returns,
\* with one it constructs the preparator and calls generate (configuration is
\* None or Some(config)).  When the preparator is replaced by a mock, as in the
\* tests (entry "run"), generate returns at once.
Finish(printed, configuration) ==
    /\ console' = console \o printed
    /\ IF configuration = None
       THEN /\ pc' = "done"
            /\ constructed' = constructed
            /\ generateCalls' = generateCalls
            /\ UNCHANGED <<configVars, milestone>>
       ELSE /\ constructed' = Append(constructed, configuration[1])
            /\ generateCalls' = generateCalls + 1
            /\ IF entry = "run"
               THEN /\ pc' = "done"
                    /\ UNCHANGED <<configVars, milestone>>
               ELSE /\ pc' = "listMilestones"
                    /\ useOllama' = configuration[1].useOllama
                    /\ model' = TextOf(configuration[1].model)
                    /\ port' = configuration[1].port[1].text
                    /\ endpoint' = configuration[1].endpoint[1].text
                    /\ username' = configuration[1].username[1].text
                    /\ milestone' = configuration[1].milestone[1].text
    /\ UNCHANGED <<entry, requests, error, prs, script, args, env>>
    /\ UNCHANGED <<apiClosed, serverPageLen, milestones, foundMilestone, page>>
    /\ UNCHANGED <<contribVars, enrichVars, lmVars, genVars>>

\* generate-release-notes.ts lines 101-137.  minimist always returns an
\* object, so the test !parsedArgs of line 105 is never true.
RunMinimist ==
    /\ pc = "run"
    /\ script = "minimist"
    /\ \E parsedArgs \in {minimist(args)} :
          IF Truthy(Arg(parsedArgs, <<"h", "e", "l", "p">>))
          THEN Finish(ShowHelp, None)
          ELSE \E partialConfig \in {parseArguments(parsedArgs, env)} :
                  IF validateConfig(partialConfig) # None
                  THEN Finish(<<Line("log", validateConfig(partialConfig)[1], << >>)>>, None)
                  ELSE Finish(<< >>, Some(setupDefaults(partialConfig)))

\* args[++i]: the next token, undefined after the last one
NextToken(tokens, k) == IF k < Len(tokens) THEN Some(Str(tokens[k + 1])) ELSE None

\* part_002 lines 55-92: the loop over args from token k on; st holds the
\* locals and the lines printed so far
RECURSIVE SwitchFrom(_, _, _)
SwitchFrom(tokens, k, st) ==
    IF k > Len(tokens) THEN st
    ELSE IF tokens[k] = <<"-", "-", "t", "o", "k", "e", "n">>
         THEN SwitchFrom(tokens, k + 2, [st EXCEPT !.token = NextToken(tokens, k)])
    ELSE IF tokens[k] = <<"-", "-", "o", "r", "g">>
         THEN SwitchFrom(tokens, k + 2, [st EXCEPT !.organization = NextToken(tokens, k)])
    ELSE IF tokens[k] = <<"-", "-", "r", "e", "p", "o">>
         THEN SwitchFrom(tokens, k + 2, [st EXCEPT !.repo = NextToken(tokens, k)])
    ELSE IF tokens[k] = <<"-", "-", "u", "s", "e", "r", "n", "a", "m", "e">>
         THEN SwitchFrom(tokens, k + 2, [st EXCEPT !.username = NextToken(tokens, k)])
    ELSE IF tokens[k] = <<"-", "-", "m", "i", "l", "e", "s", "t", "o", "n", "e">>
         THEN SwitchFrom(tokens, k + 2, [st EXCEPT !.milestone = NextToken(tokens, k)])
    ELSE IF tokens[k] = <<"-", "-", "m", "o", "d", "e", "l">>
         THEN SwitchFrom(tokens, k + 2, [st EXCEPT !.model = NextToken(tokens, k)])
    ELSE IF tokens[k] = <<"-", "-", "p", "o", "r", "t">>
         THEN SwitchFrom(tokens, k + 2, [st EXCEPT !.port = NextToken(tokens, k)])
    ELSE IF tokens[k] = <<"-", "-", "e", "n", "d", "p", "o", "i", "n", "t">>
         THEN SwitchFrom(tokens, k + 2, [st EXCEPT !.endpoint = NextToken(tokens, k)])
    ELSE IF tokens[k] = <<"-", "-", "o", "l", "l", "a", "m", "a">>
         THEN SwitchFrom(tokens, k + 1, [st EXCEPT !.useOllama = TRUE])
    ELSE IF tokens[k] \in {<<"-", "-", "h", "e", "l", "p">>, <<"-", "h">>}
         THEN SwitchFrom(tokens, k + 1, [st EXCEPT !.printed = @ \o ShowHelp])
    ELSE SwitchFrom(tokens, k + 1,
                    [st EXCEPT !.printed = Append(@, Line("warn", "Unknown option: ", tokens[k]))])

\* the locals of run without the lines printed
ConfigOf(st) ==
    [token |-> st.token, organization |-> st.organization, repo |-> st.repo,
     model |-> st.model, milestone |-> st.milestone, port |-> st.port,
     endpoint |-> st.endpoint, username |-> st.username, useOllama |-> st.useOllama]

\* part_002 lines 40-125
RunSwitch ==
    /\ pc = "run"
    /\ script = "switch"
    /\ IF Len(args) = 0
       THEN Finish(ShowHelp, None)
       ELSE \E st \in {SwitchFrom(args, 1, InitialConfig(env) @@ [printed |-> << >>])} :
               IF st.useOllama /\ ~Truthy(st.model)
               THEN Finish(Append(st.printed, Line("error", NoModelMessage, << >>)), None)
               ELSE IF ~Truthy(st.token)
                    THEN Finish(Append(st.printed, Line("log", NoTokenMessage, << >>)), None)
                    ELSE IF ~Truthy(st.username)
                         THEN Finish(Append(st.printed, Line("log", NoUsernameMessage, << >>)), None)
                         ELSE Finish(st.printed, Some(setupDefaults(ConfigOf(st))))

-----------------------------------------------------------------------------
(* A caller invokes run() with the preparator replaced by a mock, as the *)
(* tests do *)

\* the most options on a command line
MaxOptions == 3

\* the options a command line is made of: a flag with its value, or a flag
\* alone
Options ==
    { <<<<"-", "-", "t", "o", "k", "e", "n">>, <<"c", "l", "i", "-", "t", "o", "k", "e", "n">>>>,
      <<<<"-", "-", "u", "s", "e", "r", "n", "a", "m", "e">>, <<"c", "l", "i", "-", "u", "s", "e", "r">>>>,
      <<<<"-", "-", "o", "r", "g">>, <<"m", "y", "-", "o", "r", "g">>>>,
      <<<<"-", "-", "r", "e", "p", "o">>, <<"m", "y", "-", "r", "e", "p", "o">>>>,
      <<<<"-", "-", "m", "i", "l", "e", "s", "t", "o", "n", "e">>, <<"1", ".", "2", "0", ".", "0">>>>,
      <<<<"-", "-", "m", "i", "l", "e", "s", "t", "o", "n", "e">>, <<"1", ".", "2", "0">>>>,
      <<<<"-", "-", "m", "o", "d", "e", "l">>, <<"g", "e", "m", "m", "a", "3", ":", "2", "7", "b">>>>,
      <<<<"-", "-", "p", "o", "r", "t">>, <<"1", "2", "3", "4", "5">>>>,
      <<<<"-", "-", "e", "n", "d", "p", "o", "i", "n", "t">>, <<"/", "a", "p", "i", "/", "t", "e", "s", "t">>>>,
      <<<<"-", "-", "o", "l", "l", "a", "m", "a">>>>,
      <<<<"-", "-", "h", "e", "l", "p">>>>,
      <<<<"-", "h">>>>,
      <<<<"-", "-", "u", "n", "k", "n", "o", "w", "n", "-", "o", "p", "t", "i", "o", "n">>, <<"v", "a", "l", "u", "e">>>> }

\* command lines of up to MaxOptions options, no flag twice
CommandLines ==
    UNION {{Flatten(opts) : opts \in {o \in [1..n -> Options] :
                                         \A a, b \in 1..n : a # b => o[a][1] # o[b][1]}} :
              n \in 0..MaxOptions}

Environments ==
    [GITHUB_TOKEN : {None, Some(Str(<<"e", "n", "v", "-", "t", "o", "k", "e", "n">>))},
     GITHUB_USERNAME : {None, Some(Str(<<"e", "n", "v", "-", "u", "s", "e", "r">>))}]

Scripts == {"minimist", "switch"}

InitRun ==
    /\ entry = "run"
    /\ pc = "run"
    /\ requests = << >> /\ error = None
    /\ prs = << >>
    /\ script \in Scripts
    /\ args \in CommandLines
    /\ env \in Environments
    /\ console = << >>
    /\ constructed = << >>
    /\ generateCalls = 0
    /\ IdleFetch
    /\ IdleContrib
    /\ IdleEnrich
    /\ IdleConfig
    /\ IdleLM
    /\ IdleGen

NextRun == RunMinimist \/ RunSwitch

SpecRun == InitRun /\ [][NextRun]_vars

-----------------------------------------------------------------------------
-----------------------------------------------------------------------------
(* The command is run for real: run() constructs the preparator and calls its *)
(* generate()                                                                 *)

\* the command lines of the README's examples, with the credentials taken
\* from the environment
CliCommandLines ==
    { <<<<"-", "-", "m", "i", "l", "e", "s", "t", "o", "n", "e">>, <<"1", ".", "2", "0", ".", "0">>>>,
      <<<<"-", "-", "m", "i", "l", "e", "s", "t", "o", "n", "e">>, <<"1", ".", "2", "0", ".", "0">>, <<"-", "-", "m", "o", "d", "e", "l">>, <<"g", "e", "m", "m", "a", "3", ":", "2", "7", "b">>>>,
      <<<<"-", "-", "m", "i", "l", "e", "s", "t", "o", "n", "e">>, <<"1", ".", "2", "0", ".", "0">>, <<"-", "-", "p", "o", "r", "t">>, <<"1", "2", "3", "4", "5">>>>,
      <<<<"-", "-", "m", "i", "l", "e", "s", "t", "o", "n", "e">>, <<"1", ".", "2", "0", ".", "0">>, <<"-", "-", "m", "o", "d", "e", "l">>, <<"g", "e", "m", "m", "a", "3", ":", "2", "7", "b">>, <<"-", "-", "p", "o", "r", "t">>, <<"1", "2", "3", "4", "5">>>>,
      <<<<"-", "-", "m", "i", "l", "e", "s", "t", "o", "n", "e">>, <<"1", ".", "2", "0", ".", "0">>, <<"-", "-", "o", "l", "l", "a", "m", "a">>, <<"-", "-", "m", "o", "d", "e", "l">>, <<"g", "e", "m", "m", "a", "3", ":", "2", "7", "b">>>>,
      <<<<"-", "-", "m", "i", "l", "e", "s", "t", "o", "n", "e">>, <<"1", ".", "2", "0", ".", "0">>, <<"-", "-", "o", "l", "l", "a", "m", "a">>>> }

\* the milestone holds at most one closed pull request
CliLists == {list \in GenLists : Len(list) <= 1}

InitCli ==
    /\ entry = "cli"
    /\ pc = "run"
    /\ script \in Scripts
    /\ args \in CliCommandLines
    /\ env \in {e \in Environments : e.GITHUB_TOKEN # None}
    /\ console = << >>
    /\ constructed = << >>
    /\ generateCalls = 0
    /\ requests = << >> /\ error = None
    /\ prs = << >>
    /\ milestone = << >>
    /\ apiClosed \in CliLists
    /\ serverPageLen = PerPage
    /\ milestones = None
    /\ foundMilestone = None
    /\ page = 1
    /\ IdleContrib
    /\ IdleEnrich
    /\ IdleConfig
    /\ IdleLM
    /\ IdleGen

NextCli == RunMinimist \/ RunSwitch \/ NextGen

SpecCli == InitCli /\ [][NextCli]_vars

(* Properties of the contributor classifier (under SpecContrib) *)

\* the positions of the list's entries authored by login u
EntriesOf(u) == {k \in 1..Len(prs) : prs[k].user # None /\ prs[k].user[1].login = u}
\* those of them that carry the pull-request marker
MarkedEntriesOf(u) == {k \in EntriesOf(u) : prs[k].pull_request}
\* the lifetime count the contributor listing gave for u (0: not listed)
LifetimeOf(u) == IF u \in DOMAIN contributorsMap THEN contributorsMap[u] ELSE 0
\* u's whole history lies in this list
FirstTime(u) == Cardinality(MarkedEntriesOf(u)) = LifetimeOf(u) /\ LifetimeOf(u) > 0
\* the positions of the returned entries for u
ReturnedFor(u) ==
    {j \in 1..Len(firstTimeContributorPRs) : firstTimeContributorPRs[j].author.username = u}

ContribDone == entry = "getFirstTimeContributors" /\ pc = "done"

\* C1: when a first-time contributor has several entries with different
\* creation timestamps, the entry retained for the username is the one with the
\* EARLIEST created_at.  The code keeps the latest one, so TLC refutes this.
C1_EarliestRetained ==
    ContribDone =>
        \A u \in Users : \A j \in ReturnedFor(u) : \A k \in EntriesOf(u) :
            firstTimeContributorPRs[j].created_at <= prs[k].created_at

C3_IsNewContributorIff ==
    \A u \in Users \cup {"carol"} :
        LET total == IF u \in DOMAIN contributorsMap THEN contributorsMap[u] ELSE 0
            inMilestone == IF u \in DOMAIN usersMilestonePRs THEN usersMilestonePRs[u] ELSE 0
        IN  /\ isNewContributor(u, contributorsMap, usersMilestonePRs)
                <=> (total = inMilestone /\ total > 0 /\ inMilestone > 0)
            /\ (total = 0 /\ inMilestone = 0)
                => ~isNewContributor(u, contributorsMap, usersMilestonePRs)
            /\ total # inMilestone
                => ~isNewContributor(u, contributorsMap, usersMilestonePRs)

\* C3's cases together: a user with equal positive counts, a user missing from
\* both maps, and a user whose counts differ
C3_Witness ==
    /\ ContribDone
    /\ \E u1, u2 \in Users :
          /\ u1 \in DOMAIN contributorsMap /\ u1 \in DOMAIN usersMilestonePRs
          /\ contributorsMap[u1] = usersMilestonePRs[u1]
          /\ isNewContributor(u1, contributorsMap, usersMilestonePRs)
          /\ u2 \notin DOMAIN contributorsMap /\ u2 \in DOMAIN usersMilestonePRs
          /\ ~isNewContributor(u2, contributorsMap, usersMilestonePRs)
    /\ "carol" \notin DOMAIN contributorsMap \cup DOMAIN usersMilestonePRs

\* C4: the counts of getMilestonePRs sum to the number of entries that have a
\* pull-request marker and an author; each user's count is the number of that
\* user's marked entries; nobody is counted 0.
C4_CountsSum ==
    ContribDone =>
        /\ SumOver(usersMilestonePRs, DOMAIN usersMilestonePRs)
               = Cardinality({k \in 1..Len(prs) : prs[k].pull_request /\ prs[k].user # None})
        /\ \A u \in DOMAIN usersMilestonePRs :
               usersMilestonePRs[u] = Cardinality(MarkedEntriesOf(u)) /\ usersMilestonePRs[u] > 0
        /\ \A u \in Users : MarkedEntriesOf(u) = {} => u \notin DOMAIN usersMilestonePRs

\* C4's case: a list with a counted entry, an authored entry without the marker
\* and a marked entry without an author
C4_Witness ==
    /\ ContribDone
    /\ \E k1, k2, k3 \in 1..Len(prs) :
          /\ prs[k1].pull_request /\ prs[k1].user # None
          /\ ~prs[k2].pull_request /\ prs[k2].user # None
          /\ prs[k3].pull_request /\ prs[k3].user = None
    /\ SumOver(usersMilestonePRs, DOMAIN usersMilestonePRs) = 1


-----------------------------------------------------------------------------
(* Properties of the milestone PR fetcher (under SpecFetch) *)

\* the listForRepo requests issued so far, in order
ListForRepoRequests ==
    LET RECURSIVE Pick(_)
        Pick(k) == IF k > Len(requests) THEN << >>
                   ELSE IF requests[k].api = "listForRepo"
                        THEN <<requests[k]>> \o Pick(k + 1)
                        ELSE Pick(k + 1)
    IN  Pick(1)

\* the entries the claim says are returned
KeptByClaim(issue) ==
    /\ issue.pull_request
    /\ issue.user # None
    /\ issue.user[1].type # "Bot"
    /\ issue.user[1].login \notin {"podman-desktop-bot", "step-security-bot"}

\* the entries of the pages 1..n of the server, in API order
RECURSIVE PagesUpTo(_)
PagesUpTo(n) == IF n = 0 THEN << >> ELSE PagesUpTo(n - 1) \o ServerPage(n, PerPage)

C10_Requests ==
    LET reqs == ListForRepoRequests
    IN  /\ \A k \in 1..Len(reqs) : reqs[k].page = k /\ reqs[k].per_page = 100
        \* every page but the last one requested was non-empty
        /\ \A k \in 1..(Len(reqs) - 1) : ServerPage(k, 100) # << >>
        \* the loop is left at the first empty page
        /\ (Len(reqs) > 0 /\ ServerPage(Len(reqs), 100) = << >>) => pc # "listForRepo"

C10_Returned ==
    (entry = "getPRsByMilestone" /\ pc = "done") =>
        LET n == Len(ListForRepoRequests)
            fetched == PagesUpTo(n)
        IN  /\ n >= 1 /\ ServerPage(n, 100) = << >>
            /\ \A j \in 1..Len(prs) :
                  KeptByClaim(prs[j]) /\ \E q \in 1..Len(fetched) : fetched[q] = prs[j]
            /\ \A q \in 1..Len(fetched) :
                  KeptByClaim(fetched[q]) => \E j \in 1..Len(prs) : prs[j] = fetched[q]
            \* API order: the server's entries are numbered by their position
            /\ \A j1, j2 \in 1..Len(prs) : j1 < j2 => prs[j1].number < prs[j2].number

\* C10: getPRsByMilestone requests the pages 1, 2, 3, ... with 100 per page,
\* stops at the first empty page, returns in API order exactly the fetched
\* entries that are pull requests of non-bot users, and terminates once the
\* server has answered an empty page.
C10_Pagination ==
    /\ [](C10_Requests /\ C10_Returned)
    /\ (pc = "listForRepo") ~> (pc = "done")

\* C10's case: three pages were requested, an entry was kept and entries were
\* dropped for being an issue and for being a Bot's
C10_Witness ==
    /\ entry = "getPRsByMilestone" /\ pc = "done"
    /\ Len(ListForRepoRequests) >= 3
    /\ Len(prs) >= 1
    /\ \E q \in 1..Len(apiClosed) : ~apiClosed[q].pull_request
    /\ \E q \in 1..Len(apiClosed) :
          apiClosed[q].user # None /\ apiClosed[q].user[1].type = "Bot"


-----------------------------------------------------------------------------
(* Properties of the issue-body enricher (under SpecEnrich) *)

\* the body contains "Closes #<number>" or "Fixes #<number>", in any case
HasReference(body) == body # None /\ \E k \in 1..Len(body[1]) : MatchesAt(body[1], k)

\* the text of an issue's description: nothing when the issue has none
BodyText(body) == IF body = None THEN << >> ELSE body[1]

EnrichDone == entry = "includeDataFromIssue" /\ pc = "done"

\* C5: when the pull request body holds a reference, the returned body is the
\* linked issue's body text followed by the original body, nothing in between;
\* without a reference (or without a body) the pull request is returned as it
\* was and no issue is requested.  The code prepends the string "null" when the
\* linked issue has no description, so TLC refutes this.
C5_PrependsIssueBody ==
    EnrichDone =>
        IF HasReference(pr[1].body)
        THEN /\ issueResponse # None
             /\ prs[1].body = Some(BodyText(issueResponse[1].data.body) \o pr[1].body[1])
        ELSE prs[1] = pr[1] /\ requests = << >>

\* the same statement restricted to linked issues that have a description
\* (body not null): this part of C5 holds of the code
C5_WhenIssueHasBody ==
    EnrichDone =>
        IF HasReference(pr[1].body)
        THEN /\ issueResponse # None
             /\ issueResponse[1].data.body # None
                    => /\ prs[1].body = Some(issueResponse[1].data.body[1] \o pr[1].body[1])
                       /\ [prs[1] EXCEPT !.body = pr[1].body] = pr[1]
             /\ Len(requests) = 1 /\ requests[1].api = "issues.get"
        ELSE prs[1] = pr[1] /\ requests = << >>


-----------------------------------------------------------------------------
(* Properties of the highlight generator (under SpecLM) *)

LMDone == entry = "fetchDataFromService" /\ pc = "done"

\* the reply is a success whose JSON has the shape of the selected backend and
\* carries the highlight list items
WellFormedWith(reply, ollama, items) ==
    /\ reply.connected /\ reply.ok /\ reply.json.parses
    /\ IF ollama
       THEN reply.json.response = Some(JsonText("object", Some(ListValue(items))))
       ELSE reply.json.choices
                = Some(<<Choice(Some(JsonText("object", Some(ListValue(items)))))>>)

WellFormed(reply, ollama) == \E items \in HighlightLists : WellFormedWith(reply, ollama, items)

\* C6: fetchDataFromService returns the parsed prs array when the response is
\* a success with well-formed JSON in the shape of the selected backend, and
\* returns an empty array, without throwing, when the status is not a success.
C6_ParsedOrEmpty ==
    /\ entry = "fetchDataFromService" => pc \in {"fetchDataFromService", "done"}
    /\ LMDone =>
          /\ lmReply # None /\ highlighted # None
          /\ \A items \in HighlightLists :
                WellFormedWith(lmReply[1], useOllama, items)
                    => highlighted = Some(ListValue(items))
          /\ (lmReply[1].connected /\ ~lmReply[1].ok)
                => highlighted = Some(ListValue(<< >>))

\* C6's cases: a success of the chat backend with two highlights, returned as
\* they are
C6_Witness ==
    /\ LMDone /\ ~useOllama
    /\ \E items \in HighlightLists :
          /\ Len(items) = 2
          /\ WellFormedWith(lmReply[1], useOllama, items)
          /\ highlighted[1].items = items

\* C22: the list that fetchDataFromService returns never holds more than
\* five highlight objects, whatever the language model answers.
C22_AtMostFiveHighlights ==
    (LMDone /\ highlighted[1].kind = "list") => Len(highlighted[1].items) <= PromptLimit

\* C7: on every parse failure of a successful response (text that is not JSON,
\* JSON without the expected shape) the result is an empty list; the result is
\* always a list, never undefined.  The code returns undefined for JSON that
\* has no prs member, so TLC refutes this.
C7_EmptyListOnParseFailure ==
    LMDone =>
        /\ highlighted[1].kind = "list"
        /\ (lmReply[1].connected /\ lmReply[1].ok /\ ~WellFormed(lmReply[1], useOllama))
              => highlighted = Some(ListValue(<< >>))

-----------------------------------------------------------------------------
(* Properties of a whole run of generate (under SpecGen) *)

\* the language-model request failed at network level
NetworkFailure(reply) == ~reply.connected

\* the endpoint answered with a status that is not a success
NonSuccess(reply) == reply.connected /\ ~reply.ok

\* a success whose body is not JSON, or whose text for the selected backend is
\* not JSON
MalformedJSON(reply, ollama) ==
    /\ reply.connected /\ reply.ok
    /\ \/ ~reply.json.parses
       \/ IF ollama
          THEN reply.json.response = Some(JsonText("garbage", None))
          ELSE reply.json.choices = Some(<<Choice(Some(JsonText("garbage", None)))>>)

LMStepFailed ==
    /\ entry = "generate" /\ lmReply # None
    /\ \/ NetworkFailure(lmReply[1])
       \/ NonSuccess(lmReply[1])
       \/ MalformedJSON(lmReply[1], useOllama)

\* C8: a failure of the language-model step never aborts the run: once the
\* GitHub steps have succeeded and the request is made, the run goes on to
\* write its one output file; when the request failed at network level, had a
\* non-success status or brought malformed JSON, the step yields an empty list
\* and the file is rendered with zero highlights.
C8_LMFailureDoesNotAbort ==
    /\ [](LMStepFailed =>
            /\ pc \in {"generateMD", "done"}
            /\ error = None
            /\ highlighted = Some(ListValue(<< >>)))
    /\ [](LMStepFailed /\ pc = "done" =>
            /\ Len(written) = 1
            /\ written[1].view.highlighted = ListValue(<< >>))
    /\ ((entry = "generate" /\ pc = "fetchDataFromService")
            ~> (pc = "done" /\ Len(written) = 1))

\* C8's case: the request was refused, and the file is written all the same,
\* with its changelog and no highlight
C8_Witness ==
    /\ entry = "generate" /\ pc = "done"
    /\ lmReply # None /\ NetworkFailure(lmReply[1])
    /\ Len(written) = 1
    /\ written[1].view.changelog # << >>
    /\ written[1].view.highlighted = ListValue(<< >>)

\* listMilestones has answered and no title in the answer is the requested one
NoExactMatch ==
    /\ milestones # None
    /\ \A k \in 1..Len(milestones[1]) : milestones[1][k].title # milestone

\* C9: when no milestone has exactly the requested title, getPRsByMilestone
\* throws an error whose message contains the requested title and the list of
\* the available titles, and the run fails: after listMilestones nothing is
\* requested (no issue page, no contributor listing, no language-model
\* request) and no file is written.
C9_MilestoneNotFound ==
    NoExactMatch =>
        /\ pc = "failed"
        /\ error # None
        /\ Contains(error[1], milestone)
        /\ Contains(error[1], Join(TitlesOf(milestones[1]), <<",">>))
        /\ requests = <<Request("listMilestones", 0, 0)>>
        /\ written = << >>
        /\ prs = << >> /\ lmReply = None

\* C9's case: two milestones exist, one of them a prefix of the requested
\* title, none equal to it, and the run has failed
C9_Witness ==
    /\ entry = "generate" /\ pc = "failed"
    /\ NoExactMatch
    /\ Len(milestones[1]) = 2
    /\ \E k \in 1..2 : StartsWith(milestone, milestones[1][k].title)


\* the run is over and its file is written
GenDone == entry = "generate" /\ pc = "done" /\ Len(written) = 1

\* where the pull request numbered number stands in a changelog: the pairs of
\* a category's position and the entry's position in the category
PlacesOf(changelog, number) ==
    {place \in UNION {{<<c, e>> : e \in 1..Len(changelog[c].prs)} : c \in 1..Len(changelog)} :
        changelog[place[1]].prs[place[2]].number = number}

PrimaryPrefixes == {TitlePrefixes[n] : n \in 1..Len(TitlePrefixes)}

\* title, after n characters of whitespace, goes on with prefix in any case
GoesOnWith(title, n, prefix) ==
    /\ \A m \in 1..n : IsSpace(title[m])
    /\ n + Len(prefix) <= Len(title)
    /\ toLowerCase(SubSeq(title, n + 1, n + Len(prefix))) = prefix

BeginsWithPrimary(title, prefix) == \E n \in 0..Len(title) : GoesOnWith(title, n, prefix)

\* the title has a parenthesis that opens on "test", in any case
HasTestScope(title) ==
    \E at \in 1..Len(title) :
        /\ title[at] = "("
        /\ at + 4 <= Len(title)
        /\ toLowerCase(SubSeq(title, at + 1, at + 4)) = <<"t", "e", "s", "t">>

\* C11: a pull request of the milestone appears in the changelog, once, if and
\* only if it has an author and its title, after optional leading whitespace,
\* starts in any case with one of the seven prefixes; it stands under the
\* lower-cased prefix unless the test override applies; a pull request that
\* matches no prefix does not appear.
C11_Categorizer ==
    GenDone =>
        \A k \in 1..Len(prs) :
            LET title == prs[k].title
                places == PlacesOf(written[1].view.changelog, prs[k].number)
            IN  IF prs[k].user # None /\ \E prefix \in PrimaryPrefixes : BeginsWithPrimary(title, prefix)
                THEN /\ Cardinality(places) = 1
                     /\ \A place \in places :
                           LET category == written[1].view.changelog[place[1]].category
                           IN  /\ written[1].view.changelog[place[1]].prs[place[2]].title = title
                               /\ category \in PrimaryPrefixes
                               /\ ~HasTestScope(title) => BeginsWithPrimary(title, category)
                ELSE places = {}

\* C11's case: of two pull requests one, " Fix: z", stands under fix and the
\* other, "update deps", is dropped
C11_Witness ==
    /\ GenDone
    /\ Len(prs) = 2
    /\ prs[1].title = <<" ", "F", "i", "x", ":", " ", "z">>
    /\ prs[2].title = <<"u", "p", "d", "a", "t", "e", " ", "d", "e", "p", "s">>
    /\ Len(written[1].view.changelog) = 1
    /\ written[1].view.changelog[1].category = <<"f", "i", "x">>
    /\ Len(written[1].view.changelog[1].prs) = 1

\* C12: a pull request whose title matches a primary prefix and has a
\* parenthesized scope beginning with test stands under test and under no
\* other category, whichever prefix matched; one whose title has no such scope
\* stands under its primary prefix.
C12_TestOverride ==
    GenDone =>
        \A k \in 1..Len(prs) :
            \A prefix \in PrimaryPrefixes :
                BeginsWithPrimary(prs[k].title, prefix) =>
                    \A c \in 1..Len(written[1].view.changelog) :
                        (\E e \in 1..Len(written[1].view.changelog[c].prs) :
                            written[1].view.changelog[c].prs[e].number = prs[k].number)
                        <=> written[1].view.changelog[c].category
                                = (IF HasTestScope(prs[k].title) THEN <<"t", "e", "s", "t">> ELSE prefix)

\* C12's case: "chore(tests): y" stands under test, which is rendered after
\* fix, where "fix(ui): w" stands
C12_Witness ==
    /\ GenDone
    /\ Len(prs) = 2
    /\ prs[1].title = <<"c", "h", "o", "r", "e", "(", "t", "e", "s", "t", "s", ")", ":", " ", "y">>
    /\ prs[2].title = <<"f", "i", "x", "(", "u", "i", ")", ":", " ", "w">>
    /\ Len(written[1].view.changelog) = 2
    /\ written[1].view.changelog[2].category = <<"t", "e", "s", "t">>
    /\ written[1].view.changelog[2].prs[1].number = prs[1].number
    /\ written[1].view.changelog[1].category = <<"f", "i", "x">>
    /\ written[1].view.changelog[1].prs[1].number = prs[2].number

\* the pull requests of a list that the claim puts in the pool
RECURSIVE PoolOf(_)
PoolOf(list) ==
    IF list = << >> THEN << >>
    ELSE IF /\ Head(list).pull_request
            /\ \/ StartsWith(Head(list).title, <<"f", "e", "a", "t">>)
               \/ StartsWith(Head(list).title, <<"c", "h", "o", "r", "e">>)
         THEN <<Head(list)>> \o PoolOf(Tail(list))
         ELSE PoolOf(Tail(list))

\* the requests sent to the language model
LMRequests == {k \in 1..Len(requests) : requests[k].api = "fetch"}

\* C14: the text sent to the language model holds a pull request of the
\* milestone if and only if it has the pull-request marker and its title
\* begins with feat or with chore: the text is made of exactly these, in
\* order, whether or not they stand in the changelog.
C14_HighlightPool ==
    (entry = "generate" /\ lmReply # None) =>
        /\ Cardinality(LMRequests) = 1
        /\ \A k \in LMRequests : requests[k].body.content = ContentOf(PoolOf(prs))
        /\ Len(PoolOf(prs))
              = Cardinality({k \in 1..Len(prs) :
                                \/ StartsWith(prs[k].title, <<"f", "e", "a", "t">>)
                                \/ StartsWith(prs[k].title, <<"c", "h", "o", "r", "e">>)})

\* C14's case: "chore(tests): y" is sent, "fix(ui): w", which stands in the
\* changelog, is not
C14_Witness ==
    /\ GenDone
    /\ Len(prs) = 2
    /\ prs[1].title = <<"c", "h", "o", "r", "e", "(", "t", "e", "s", "t", "s", ")", ":", " ", "y">>
    /\ prs[2].title = <<"f", "i", "x", "(", "u", "i", ")", ":", " ", "w">>
    /\ \E k \in LMRequests :
          requests[k].body.content = <<"P", "R", "1", ":", " ", "c", "h", "o", "r", "e", "(", "t", "e", "s", "t", "s", ")", ":", " ", "y", " ", "-", " ", "\n", "}">>
    /\ PlacesOf(written[1].view.changelog, prs[2].number) # {}

-----------------------------------------------------------------------------
(* Properties of generateMD (under SpecMD) *)

MDDone == entry = "generateMD" /\ pc = "done" /\ Len(written) = 1

\* the entries of a changelog whose category is one of names (isIn TRUE), or
\* none of names (isIn FALSE), in the order of the changelog
RECURSIVE Chosen(_, _, _)
Chosen(changelog, names, isIn) ==
    IF changelog = << >> THEN << >>
    ELSE IF (Head(changelog).category \in names) = isIn
         THEN <<Head(changelog)>> \o Chosen(Tail(changelog), names, isIn)
         ELSE Chosen(Tail(changelog), names, isIn)

\* C13: generateMD renders the categories feat, then fix, then chore, each if
\* present, and after them every other category in the order of the input
\* changelog, which is the order of first encounter; no category is lost or
\* duplicated.
C13_RenderingOrder ==
    MDDone =>
        written[1].view.changelog
            = Chosen(categorizedPRsMap, {<<"f", "e", "a", "t">>}, TRUE)
              \o Chosen(categorizedPRsMap, {<<"f", "i", "x">>}, TRUE)
              \o Chosen(categorizedPRsMap, {<<"c", "h", "o", "r", "e">>}, TRUE)
              \o Chosen(categorizedPRsMap, {<<"f", "e", "a", "t">>, <<"f", "i", "x">>, <<"c", "h", "o", "r", "e">>}, FALSE)

\* C13's case: test and docs are met before feat; feat is rendered first,
\* test and docs keep their order
C13_Witness ==
    /\ MDDone
    /\ Len(categorizedPRsMap) = 3
    /\ categorizedPRsMap[1].category = <<"t", "e", "s", "t">>
    /\ categorizedPRsMap[2].category = <<"d", "o", "c", "s">>
    /\ categorizedPRsMap[3].category = <<"f", "e", "a", "t">>
    /\ written[1].view.changelog
           = <<categorizedPRsMap[3], categorizedPRsMap[1], categorizedPRsMap[2]>>

\* the pull requests that getPRsByMilestone hands to generate, as the server
\* holds them
Fetched == FilterUserPRs(apiClosed)

\* the lookups sent so far
IssueLookups == {k \in 1..Len(requests) : requests[k].api = "issues.get"}

\* the lookup of the i-th pull request was rejected
LookupRejected == issueResponse # None /\ ~issueResponse[1].ok

\* C21: once an issue lookup is rejected, generate has failed with that error
\* and stays so: the rejected lookup is the last request ever sent, the
\* pull requests after the failing one are as they were fetched, no request
\* went to the language model and no file is written.
C21_LookupFailureAborts ==
    (entry = "generate" /\ LookupRejected) =>
        /\ pc = "failed"
        /\ error = Some(LookupFailed)
        /\ requests[Len(requests)].api = "issues.get"
        /\ \A k \in IssueLookups : k < Len(requests) => requests[k + 1].api = "issues.get"
        /\ \A k \in (i + 1)..Len(prs) : prs[k] = Fetched[k]
        /\ LMRequests = {}
        /\ written = << >>

\* C21's case: the lookup of the first of two pull requests is rejected while
\* the second one, which also names an issue, is still to come
C21_Witness ==
    /\ entry = "generate" /\ pc = "failed"
    /\ LookupRejected
    /\ i = 1 /\ Len(prs) = 2
    /\ IssueMatch(prs[2].body) # None
    /\ Cardinality(IssueLookups) = 1

\* generate is past its loop over the pull requests
LoopDone == entry = "generate" /\ pc \in {"fetchDataFromService", "generateMD", "done"}

\* the issue numbers of the lookups, in the order they were sent
RECURSIVE LookupNumbersFrom(_)
LookupNumbersFrom(k) ==
    IF k > Len(requests) THEN << >>
    ELSE IF requests[k].api = "issues.get"
         THEN <<requests[k].issue_number>> \o LookupNumbersFrom(k + 1)
         ELSE LookupNumbersFrom(k + 1)

\* the digits after the first "Closes #" or "Fixes #" (any case, one white
\* space) of a body; None when there is no such reference
FirstReference(body) ==
    IF body = None THEN None
    ELSE LET text == body[1]
             At(k) == \E w \in {<<"c", "l", "o", "s", "e", "s">>, <<"f", "i", "x", "e", "s">>} :
                         /\ k + Len(w) + 2 <= Len(text)
                         /\ toLowerCase(SubSeq(text, k, k + Len(w) - 1)) = w
                         /\ IsSpace(text[k + Len(w)])
                         /\ text[k + Len(w) + 1] = "#"
                         /\ IsDigit(text[k + Len(w) + 2])
             starts == {k \in 1..Len(text) : At(k)}
         IN  IF starts = {} THEN None
             ELSE LET k == Least(starts)
                      hash == Least({n \in k..Len(text) : text[n] = "#"})
                      stop == Least({n \in (hash + 1)..(Len(text) + 1) :
                                        n = Len(text) + 1 \/ ~IsDigit(text[n])})
                  IN  Some(SubSeq(text, hash + 1, stop - 1))

\* the lookups the claim expects for a list of pull requests
RECURSIVE ExpectedLookups(_)
ExpectedLookups(list) ==
    IF list = << >> THEN << >>
    ELSE FirstReference(Head(list).body) \o ExpectedLookups(Tail(list))

\* C23: when the loop of generate is over, one lookup has been sent for every
\* fetched pull request whose body has a reference, for its first reference,
\* in fetched order, and none for the others, whatever the titles are.
C23_OneLookupPerPullRequest ==
    LoopDone => LookupNumbersFrom(1) = ExpectedLookups(Fetched)

\* the place of a request in the order of generate
Stage(api) ==
    CASE api = "listMilestones" -> 1
      [] api = "listForRepo" -> 2
      [] api = "listContributors" -> 3
      [] api = "issues.get" -> 4
      [] api = "fetch" -> 5

RequestsOf(api) == {k \in 1..Len(requests) : requests[k].api = api}

\* the requests sent so far are a beginning of: the milestone listing, the
\* issue pages 1, 2, ..., the contributor listing, the lookups, the request to
\* the language model
InOrder ==
    /\ \A k \in 1..(Len(requests) - 1) : Stage(requests[k].api) <= Stage(requests[k + 1].api)
    /\ Len(requests) >= 1 => requests[1].api = "listMilestones"
    /\ \A k \in 2..Len(requests) :
          Stage(requests[k].api) - Stage(requests[k - 1].api) <= 1
          \/ (requests[k].api = "fetch" /\ requests[k - 1].api = "listContributors")
    /\ \A api \in {"listMilestones", "listContributors", "fetch"} :
          Cardinality(RequestsOf(api)) <= 1
    /\ \A k \in RequestsOf("listForRepo") :
          requests[k].page = 1 + Cardinality({n \in RequestsOf("listForRepo") : n < k})

\* nothing is sent after the write
WriteIsLast ==
    written # << >> => /\ Len(written) = 1
                       /\ requests # << >>
                       /\ requests[Len(requests)].api = "fetch"

SelectedIn(list) ==
    {k \in 1..Len(list) :
        /\ list[k].pull_request
        /\ \/ StartsWith(list[k].title, <<"f", "e", "a", "t">>)
           \/ StartsWith(list[k].title, <<"c", "h", "o", "r", "e">>)}

\* a body up to the section of screenshots; no body gives the empty text
BeforeScreenshots(body) ==
    IF body = None THEN << >>
    ELSE LET text == body[1]
             marks == {k \in 1..Len(text) :
                          /\ k + Len(ScreenshotHeading) - 1 <= Len(text)
                          /\ \A n \in 1..Len(ScreenshotHeading) :
                                text[k + n - 1] = ScreenshotHeading[n]}
         IN  IF marks = {} THEN text ELSE SubSeq(text, 1, Least(marks) - 1)

\* the entry of the pull request at position k of a list
EntryText(list, k) ==
    <<"P", "R">> \o Decimal(Cardinality({n \in SelectedIn(list) : n <= k}))
    \o <<":", " ">> \o list[k].title \o <<" ", "-", " ">> \o BeforeScreenshots(list[k].body) \o <<"\n", "}">>

\* the entries of the selected pull requests from position k on, one after
\* the other
RECURSIVE BlobFrom(_, _)
BlobFrom(list, k) ==
    IF k > Len(list) THEN << >>
    ELSE IF k \in SelectedIn(list) THEN EntryText(list, k) \o BlobFrom(list, k + 1)
         ELSE BlobFrom(list, k + 1)

\* C25: the text that generate makes at the end of its loop is, for the pull
\* requests as they stand then (bodies enriched), the entries
\* 'PR<k>: <title> - <body>' + newline + '}' of the selected ones, in fetched
\* order, with no separator, k counting the selected ones only and <body> cut
\* at the screenshot heading (empty without a body); that text is what the
\* request to the language model carries.
C25_TextBlob ==
    [][/\ (entry = "generate" /\ pc = "categorize" /\ pc' = "fetchDataFromService") =>
             content' = BlobFrom(prs, 1)
       /\ (entry = "generate" /\ pc = "fetchDataFromService") =>
             requests'[Len(requests')].body.content = content]_vars

\* C25's case: the first fetched pull request is not selected, the second one
\* is and is numbered 1; its body, enriched with the issue's, is cut at the
\* screenshot heading
C25_Witness ==
    /\ GenDone
    /\ Len(prs) = 2
    /\ ~IsFeature(prs[1])
    /\ \E k \in LMRequests :
          requests[k].body.content = <<"P", "R", "1", ":", " ", "f", "e", "a", "t", ":", " ", "a", "d", "d", " ", "x", " ", "-", " ", "I", "s", "s", "u", "e", ".", "C", "l", "o", "s", "e", "s", " ", "#", "1", "\n", "\n", "}">>

\* a fetched pull request whose title has a recognized prefix
Categorizable(issue) == \E prefix \in PrimaryPrefixes : BeginsWithPrimary(issue.title, prefix)

\* the changelog entry of a pull request as it was fetched
EntryOfFetched(issue) ==
    [title |-> issue.title,
     author |-> [username |-> issue.user[1].login, link |-> issue.user[1].html_url],
     number |-> issue.number,
     link |-> issue.html_url]

\* the positions in the fetched list of the pull requests that an entry is of
FetchedAt(info) == {k \in 1..Len(Fetched) : Categorizable(Fetched[k]) /\ EntryOfFetched(Fetched[k]) = info}

\* C27: in the changelog that is rendered, the categories have different names
\* among the seven and none is empty; every entry is the entry of one fetched
\* pull request with a recognized prefix, made of its title, author, number
\* and link as they were fetched; every such pull request has exactly one
\* entry; and the entries of a category stand in fetched order.
C27_Partition ==
    GenDone =>
        LET changelog == written[1].view.changelog
        IN  /\ \A c \in 1..Len(changelog) :
                  /\ changelog[c].category \in PrimaryPrefixes
                  /\ changelog[c].prs # << >>
                  /\ \A d \in 1..Len(changelog) : changelog[d].category = changelog[c].category => d = c
                  /\ \A e \in 1..Len(changelog[c].prs) :
                        Cardinality(FetchedAt(changelog[c].prs[e])) = 1
                  /\ \A e1, e2 \in 1..Len(changelog[c].prs) :
                        e1 < e2 => \A k1 \in FetchedAt(changelog[c].prs[e1]) :
                                      \A k2 \in FetchedAt(changelog[c].prs[e2]) : k1 < k2
            /\ \A k \in 1..Len(Fetched) :
                  Categorizable(Fetched[k]) =>
                      Cardinality(PlacesOf(changelog, Fetched[k].number)) = 1

\* C27's case: two pull requests of one category, both enriched from their
\* issues, stand in it in fetched order
C27_Witness ==
    /\ GenDone
    /\ Len(written[1].view.changelog) = 1
    /\ Len(written[1].view.changelog[1].prs) = 2
    /\ written[1].view.changelog[1].prs[1].number = Fetched[1].number
    /\ Cardinality(IssueLookups) = 2
    /\ prs[1].body # Fetched[1].body

-----------------------------------------------------------------------------
(* Properties of run (under SpecRun) *)

RunDone == entry = "run" /\ pc = "done"

\* the command line has the flag
HasFlag(flag) == \E k \in 1..Len(args) : args[k] = flag

\* the value that the command line gives to the flag: the token after it
GivenValue(flag) ==
    IF \E k \in 1..(Len(args) - 1) : args[k] = flag
    THEN Some(args[(CHOOSE k \in 1..(Len(args) - 1) : args[k] = flag) + 1])
    ELSE None

\* the command line's value if there is one, else the fallback
Resolved(flag, fallback) == IF GivenValue(flag) # None THEN GivenValue(flag) ELSE fallback

ResolvedToken == Resolved(<<"-", "-", "t", "o", "k", "e", "n">>, TextOf(env.GITHUB_TOKEN))
ResolvedUsername == Resolved(<<"-", "-", "u", "s", "e", "r", "n", "a", "m", "e">>, TextOf(env.GITHUB_USERNAME))

OllamaWithoutModel == HasFlag(<<"-", "-", "o", "l", "l", "a", "m", "a">>) /\ GivenValue(<<"-", "-", "m", "o", "d", "e", "l">>) = None

MissingConfiguration ==
    ResolvedToken = None \/ ResolvedUsername = None \/ OllamaWithoutModel

HelpRequested == HasFlag(<<"-", "-", "h", "e", "l", "p">>) \/ HasFlag(<<"-", "h">>)

HelpShown == \E k \in 1..Len(console) : console[k] = Line("log", "Parameters:", << >>)

Printed(text) == \E k \in 1..Len(console) : console[k].text = text /\ console[k].arg = << >>

OrText(flag, text) == IF GivenValue(flag) # None THEN GivenValue(flag)[1] ELSE text

\* C16: a run that is given a token and a username (and a model with --ollama)
\* on a command line without --help constructs the preparator exactly once;
\* whenever a preparator is constructed, it is constructed once, with the command
\* line's value where there is one, else the environment's or the default:
\* podman-desktop for organization and repository, 11434 and /api/generate
\* with --ollama, 45621 and /v1/chat/completions without.
C16_Resolution ==
    RunDone =>
        /\ (~MissingConfiguration /\ ~HelpRequested /\ args # << >>) => Len(constructed) = 1
        /\ constructed # << >> =>
              /\ Len(constructed) = 1
              /\ generateCalls = 1
              /\ TextOf(constructed[1].token) = ResolvedToken
              /\ TextOf(constructed[1].username) = ResolvedUsername
              /\ TextOf(constructed[1].organization) = Some(OrText(<<"-", "-", "o", "r", "g">>, <<"p", "o", "d", "m", "a", "n", "-", "d", "e", "s", "k", "t", "o", "p">>))
              /\ TextOf(constructed[1].repo) = Some(OrText(<<"-", "-", "r", "e", "p", "o">>, <<"p", "o", "d", "m", "a", "n", "-", "d", "e", "s", "k", "t", "o", "p">>))
              /\ TextOf(constructed[1].milestone) = Some(OrText(<<"-", "-", "m", "i", "l", "e", "s", "t", "o", "n", "e">>, <<>>))
              /\ TextOf(constructed[1].model) = GivenValue(<<"-", "-", "m", "o", "d", "e", "l">>)
              /\ constructed[1].useOllama = HasFlag(<<"-", "-", "o", "l", "l", "a", "m", "a">>)
              /\ TextOf(constructed[1].port) =
                    Some(OrText(<<"-", "-", "p", "o", "r", "t">>, IF HasFlag(<<"-", "-", "o", "l", "l", "a", "m", "a">>) THEN <<"1", "1", "4", "3", "4">> ELSE <<"4", "5", "6", "2", "1">>))
              /\ TextOf(constructed[1].endpoint) =
                    Some(OrText(<<"-", "-", "e", "n", "d", "p", "o", "i", "n", "t">>, IF HasFlag(<<"-", "-", "o", "l", "l", "a", "m", "a">>) THEN <<"/", "a", "p", "i", "/", "g", "e", "n", "e", "r", "a", "t", "e">>
                                                ELSE <<"/", "v", "1", "/", "c", "h", "a", "t", "/", "c", "o", "m", "p", "l", "e", "t", "i", "o", "n", "s">>))

\* the options that run does not know
UnknownFlag == <<"-", "-", "u", "n", "k", "n", "o", "w", "n", "-", "o", "p", "t", "i", "o", "n">>

Warned(tok) ==
    \E k \in 1..Len(console) : console[k] = Line("warn", "Unknown option: ", tok)

\* C17: a command line with an unknown flag gets the warning
\* 'Unknown option: <flag>', and with a token and a username (and a model with
\* --ollama, and no --help) run still constructs the preparator once with the
\* values of the known flags and calls generate.
C17_UnknownOption ==
    (RunDone /\ HasFlag(UnknownFlag)) =>
        /\ Warned(UnknownFlag)
        /\ (~MissingConfiguration /\ ~HelpRequested) =>
              /\ Len(constructed) = 1
              /\ generateCalls = 1
              /\ TextOf(constructed[1].token) = ResolvedToken
              /\ TextOf(constructed[1].username) = ResolvedUsername

HelpOnly == console = ShowHelp

\* C18: with --help or -h on the command line run prints the help text and
\* returns: no preparator is constructed and generate is not called, whatever
\* the other flags and the environment.
C18_HelpExits ==
    (RunDone /\ HelpRequested) =>
        /\ HelpShown
        /\ constructed = << >>
        /\ generateCalls = 0

\* C19: without command-line arguments run prints the help text and returns
\* without constructing the preparator or calling generate, whatever the
\* environment.
C19_NoArguments ==
    (RunDone /\ args = << >>) =>
        /\ HelpOnly
        /\ constructed = << >>
        /\ generateCalls = 0

-----------------------------------------------------------------------------
(* Properties of the command run for real (under SpecCli) *)

\* C20: on a command line with neither --model nor --port no request is sent
\* to a language-model endpoint and every file written has an empty list of
\* highlights.
C20_NoHighlightsWithoutModelAndPort ==
    (entry = "cli" /\ GivenValue(<<"-", "-", "m", "o", "d", "e", "l">>) = None /\ GivenValue(<<"-", "-", "p", "o", "r", "t">>) = None) =>
        /\ LMRequests = {}
        /\ \A k \in 1..Len(written) : written[k].view.highlighted = ListValue(<< >>)

\* the version the claim derives from the milestone name
AllButLastTwo(name) == [k \in 1..(IF Len(name) <= 2 THEN 0 ELSE Len(name) - 2) |-> name[k]]

\* the name of the file for a version
ReleaseFile(version) == FormattedDate \o <<"-", "r", "e", "l", "e", "a", "s", "e", "-">> \o version \o <<".", "m", "d">>

\* the directories generateMD may find: empty, or holding a file of the
\* name it is going to write
Directories(name) == {<< >>, [n \in {name} |-> <<"old">>]}

RECURSIVE AfterWrites(_, _)
AfterWrites(files, writes) ==
    IF writes = << >> THEN files
    ELSE AfterWrites(WriteFile(files, Head(writes)), Tail(writes))

\* C26: generateMD writes nothing before it ends and one file when it ends,
\* named <date>-release-<version>.md, where version is the milestone name
\* without its last two characters (empty for a name of two characters or
\* fewer) and is the version that the template gets; whether or not a file of
\* that name existed, the file then holds the rendered document and nothing
\* else.
C26_VersionAndFile ==
    entry = "generateMD" =>
        /\ pc # "done" => written = << >>
        /\ pc = "done" =>
              /\ Len(written) = 1
              /\ written[1].filename = ReleaseFile(AllButLastTwo(milestone))
              /\ written[1].view.version = AllButLastTwo(milestone)
              /\ \A files \in Directories(ReleaseFile(AllButLastTwo(milestone))) :
                    /\ ReleaseFile(AllButLastTwo(milestone)) \in DOMAIN AfterWrites(files, written)
                    /\ AfterWrites(files, written)[ReleaseFile(AllButLastTwo(milestone))]
                          = <<written[1].view>>

\* C26's cases: a milestone name of two characters gives the empty version
C26_Witness ==
    /\ MDDone
    /\ milestone = <<"v", "1">>
    /\ written[1].filename = <<"2", "0", "2", "6", "-", "0", "1", "-", "1", "5", "-", "r", "e", "l", "e", "a", "s", "e", "-", ".", "m", "d">>
    /\ written[1].view.version = << >>

=============================================================================
